---------------------------- MODULE Spec2Model ----------------------------
(***************************************************************************)
(* A model of the greatshot annotation editor: the EditorState aggregate   *)
(* of src/src/editor.rs, its pure geometry (normalized, annotation_bounds, *)
(* hit_test, move_annotation, view_transform, map_to_image, apply_crop),   *)
(* the compositing done by draw / render_to_pixbuf, and the GTK event      *)
(* handlers of src/src/window.rs that mutate the state.                    *)
(*                                                                         *)
(* Numbers.  The program computes in f64.  The model computes in exact     *)
(* rationals <<n, d>> (d > 0, lowest terms), so that divisions by the view *)
(* scale, halvings of the centring offset and roundings are computed as    *)
(* the code computes them; floating-point rounding error is not modelled.  *)
(*                                                                         *)
(* Option<T> is a sequence of length 0 (None) or 1 (Some).  Vec indices    *)
(* are kept 0-based as in the source: element i of a Vec v is v[i + 1].    *)
(***************************************************************************)
EXTENDS Integers, Sequences, FiniteSets, TLC

\* ------------------------------------------------------------------------
\* Bounds of the model (not program constants).

\* Most annotations held by the session (annotations and redo together).
MaxAnn == 2

\* Most points of one pen stroke.
MaxPts == 3

\* Largest absolute coordinate (numerator over denominator) an annotation
\* may be moved to by a Select drag or a crop rebase.
MaxCoord == 12

\* Largest denominator of the zoom a ctrl-scroll step may lead to.
MaxZoomDen == 100

\* ------------------------------------------------------------------------
\* Exact rationals standing for f64 values.

RECURSIVE GCD(_, _)
GCD(a, b) == IF b = 0 THEN a ELSE GCD(b, a % b)

IAbs(i) == IF i < 0 THEN -i ELSE i

\* n / d for d > 0, in lowest terms.
Q(n, d) ==
    LET g == GCD(IAbs(n), d)
    IN  IF n = 0 THEN <<0, 1>> ELSE <<n \div g, d \div g>>

I2Q(i) == <<i, 1>>

QAdd(a, b) == Q(a[1] * b[2] + b[1] * a[2], a[2] * b[2])
QSub(a, b) == Q(a[1] * b[2] - b[1] * a[2], a[2] * b[2])
QNeg(a) == <<-a[1], a[2]>>
QMul(a, b) == Q(a[1] * b[1], a[2] * b[2])

\* a / b for b # 0.
QDiv(a, b) ==
    IF b[1] > 0 THEN Q(a[1] * b[2], a[2] * b[1])
                ELSE Q(-(a[1] * b[2]), -(a[2] * b[1]))

QLt(a, b) == a[1] * b[2] < b[1] * a[2]
QLe(a, b) == a[1] * b[2] <= b[1] * a[2]
QMin(a, b) == IF QLe(a, b) THEN a ELSE b
QMax(a, b) == IF QLe(b, a) THEN a ELSE b
QAbs(a) == <<IAbs(a[1]), a[2]>>

\* f64::round: to the nearest integer, halves away from zero.
QRound(a) ==
    IF a[1] >= 0 THEN (2 * a[1] + a[2]) \div (2 * a[2])
                 ELSE -((2 * (-a[1]) + a[2]) \div (2 * a[2]))

Zero == <<0, 1>>
One == <<1, 1>>

\* ------------------------------------------------------------------------
\* Geometry primitives.

None == <<>>
Some(v) == <<v>>

Point(x, y) == [x |-> x, y |-> y]

Rect(x1, y1, x2, y2) == [x1 |-> x1, y1 |-> y1, x2 |-> x2, y2 |-> y2]

\* A mutant of normalized: the extent is not made absolute.
normalized_signed(r) ==
    [x |-> QMin(r.x1, r.x2), y |-> QMin(r.y1, r.y2),
     w |-> QSub(r.x2, r.x1), h |-> QSub(r.y2, r.y1)]

\* Rect::normalized: origin and non-negative extent of two arbitrary corners.
normalized(r) ==
    [x |-> QMin(r.x1, r.x2), y |-> QMin(r.y1, r.y2),
     w |-> QAbs(QSub(r.x2, r.x1)), h |-> QAbs(QSub(r.y2, r.y1))]

\* ------------------------------------------------------------------------
\* Annotations: the variants of enum Annotation.

Pen(points, color, width) ==
    [kind |-> "Pen", points |-> points, color |-> color, width |-> width]

RectAnn(rect, color, width) ==
    [kind |-> "Rect", rect |-> rect, color |-> color, width |-> width]

Line(start, end, color, width, arrow) ==
    [kind |-> "Line", start |-> start, end |-> end, color |-> color,
     width |-> width, arrow |-> arrow]

Text(pos, text, color, size) ==
    [kind |-> "Text", pos |-> pos, text |-> text, color |-> color, size |-> size]

Blur(rect, pixel_size) ==
    [kind |-> "Blur", rect |-> rect, pixel_size |-> pixel_size]

Tools == {"Select", "Pen", "Rect", "Line", "Arrow", "Text", "Blur", "Crop"}

MovePoint(p, dx, dy) == Point(QAdd(p.x, dx), QAdd(p.y, dy))

MoveRect(r, dx, dy) ==
    Rect(QAdd(r.x1, dx), QAdd(r.y1, dy), QAdd(r.x2, dx), QAdd(r.y2, dy))

\* A mutant of move_annotation: a Pen stroke moves only its first point.
move_annotation_first(a, dx, dy) ==
    CASE a.kind = "Pen" ->
           [a EXCEPT !.points =
               [i \in DOMAIN a.points |->
                   IF i = 1 THEN MovePoint(a.points[i], dx, dy) ELSE a.points[i]]]
      [] a.kind = "Rect" -> [a EXCEPT !.rect = MoveRect(a.rect, dx, dy)]
      [] a.kind = "Line" ->
           [a EXCEPT !.start = MovePoint(a.start, dx, dy),
                     !.end = MovePoint(a.end, dx, dy)]
      [] a.kind = "Text" -> [a EXCEPT !.pos = MovePoint(a.pos, dx, dy)]
      [] a.kind = "Blur" -> [a EXCEPT !.rect = MoveRect(a.rect, dx, dy)]

\* move_annotation: translate every geometry field of the variant.
move_annotation(a, dx, dy) ==
    CASE a.kind = "Pen" ->
           [a EXCEPT !.points =
               [i \in DOMAIN a.points |-> MovePoint(a.points[i], dx, dy)]]
      [] a.kind = "Rect" -> [a EXCEPT !.rect = MoveRect(a.rect, dx, dy)]
      [] a.kind = "Line" ->
           [a EXCEPT !.start = MovePoint(a.start, dx, dy),
                     !.end = MovePoint(a.end, dx, dy)]
      [] a.kind = "Text" -> [a EXCEPT !.pos = MovePoint(a.pos, dx, dy)]
      [] a.kind = "Blur" -> [a EXCEPT !.rect = MoveRect(a.rect, dx, dy)]

\* A variant of QMinOf that stops at the first element.
QMinOf_head(s, i) == s[i]

RECURSIVE QMinOf(_, _)
QMinOf(s, i) == IF i = Len(s) THEN s[i] ELSE QMin(s[i], QMinOf(s, i + 1))

RECURSIVE QMaxOf(_, _)
QMaxOf(s, i) == IF i = Len(s) THEN s[i] ELSE QMax(s[i], QMaxOf(s, i + 1))

\* annotation_bounds: Option<Rect>, the bounding box of a variant.
annotation_bounds(a) ==
    CASE a.kind = "Pen" ->
           IF Len(a.points) = 0 THEN None
           ELSE LET xs == [i \in DOMAIN a.points |-> a.points[i].x]
                    ys == [i \in DOMAIN a.points |-> a.points[i].y]
                IN  Some(Rect(QMinOf(xs, 1), QMinOf(ys, 1), QMaxOf(xs, 1), QMaxOf(ys, 1)))
      [] a.kind = "Rect" -> Some(a.rect)
      [] a.kind = "Line" -> Some(Rect(a.start.x, a.start.y, a.end.x, a.end.y))
      [] a.kind = "Text" ->
           LET width == QMax(Q(Len(a.text) * a.size * 6, 10), One)
           IN  Some(Rect(a.pos.x, QSub(a.pos.y, I2Q(a.size)),
                         QAdd(a.pos.x, width), QAdd(a.pos.y, Q(a.size * 2, 10))))
      [] a.kind = "Blur" -> Some(a.rect)

\* Whether annotation a's bounding box contains the point (bounds inclusive).
Hits(a, point) ==
    LET b == annotation_bounds(a)
    IN  /\ b # None
        /\ LET n == normalized(b[1])
           IN  /\ QLe(n.x, point.x) /\ QLe(point.x, QAdd(n.x, n.w))
               /\ QLe(n.y, point.y) /\ QLe(point.y, QAdd(n.y, n.h))

\* A variant of hit_test that scans from the first annotation.
RECURSIVE hit_test_from_first(_, _)
hit_test_from_first(annotations, point) ==
    IF annotations = <<>> THEN None
    ELSE IF Hits(annotations[1], point) THEN Some(0)
    ELSE LET rest == hit_test_from_first(Tail(annotations), point)
         IN  IF rest = None THEN None ELSE Some(rest[1] + 1)

\* The loop of hit_test over indices i-1, i-2, .., 0 (enumerate().rev()).
RECURSIVE HitScan(_, _, _)
HitScan(annotations, point, i) ==
    IF i = 0 THEN None
    ELSE IF Hits(annotations[i], point) THEN Some(i - 1)
    ELSE HitScan(annotations, point, i - 1)

\* hit_test: Option<usize>, the last (topmost) annotation hit.
hit_test(annotations, point) == HitScan(annotations, point, Len(annotations))

\* ------------------------------------------------------------------------
\* Raster images.  A Pixbuf is its pixel dimensions and the storage it reads:
\* src names the pixel buffer and (ox, oy) is where this image starts in it
\* (a sub-pixbuf is a window onto its parent's buffer).  NullPixbuf is what a
\* failed gdk_pixbuf_new_subpixbuf leaves behind in a build without debug
\* assertions: every accessor of it reports -1.

Pixbuf(width, height, src, ox, oy) ==
    [width |-> width, height |-> height, src |-> src, ox |-> ox, oy |-> oy]

NullPixbuf == Pixbuf(-1, -1, "null", 0, 0)

\* What the build does when new_subpixbuf is given a rectangle outside the
\* source image (the C call returns NULL, which the binding does not expect):
\* "abort" ends the process, "null" carries on with a null image.
SubpixbufFaults == {"abort", "null"}

SubpixbufInside(bg, x, y, w, h) ==
    /\ bg.src # "null"
    /\ x >= 0 /\ x + w <= bg.width
    /\ y >= 0 /\ y + h <= bg.height
    /\ w > 0 /\ h > 0

\* Pixbuf::new_subpixbuf on a rectangle inside the source.
new_subpixbuf(bg, x, y, w, h) == Pixbuf(w, h, bg.src, bg.ox + x, bg.oy + y)

\* ------------------------------------------------------------------------
\* EditorState.

IMax(a, b) == IF a >= b THEN a ELSE b

\* EditorState::new, then the overrides of build_ui_for_window and of the
\* initial activation of the Pen tool button and the red colour swatch.
NewState ==
    [background |-> None,
     annotations |-> <<>>,
     redo |-> <<>>,
     tool |-> "Pen",
     color |-> "red",
     stroke_width |-> 4,
     text_size |-> 22,
     draft |-> None,
     drag_start_view |-> None,
     viewport_width |-> 0,
     viewport_height |-> 0,
     fit_to_window |-> TRUE,
     zoom |-> One,
     selected |-> None,
     selected_original |-> None,
     crop_rect |-> None]

\* A mutant of set_background: the redo stack and the selection survive.
set_background_keep(st, pixbuf) ==
    [st EXCEPT !.background = Some(pixbuf),
               !.annotations = <<>>,
               !.draft = None,
               !.drag_start_view = None,
               !.crop_rect = None]

\* A variant of set_background that leaves the gesture's anchor in place.
set_background_anchored(st, pixbuf) ==
    [st EXCEPT !.background = Some(pixbuf),
               !.annotations = <<>>,
               !.redo = <<>>,
               !.draft = None,
               !.selected = None,
               !.selected_original = None,
               !.crop_rect = None]

\* EditorState::set_background.
set_background(st, pixbuf) ==
    [st EXCEPT !.background = Some(pixbuf),
               !.annotations = <<>>,
               !.redo = <<>>,
               !.draft = None,
               !.drag_start_view = None,
               !.selected = None,
               !.selected_original = None,
               !.crop_rect = None]

\* A mutant of push_annotation: the redo stack is kept.
push_annotation_keep(st, annotation) ==
    [st EXCEPT !.annotations = Append(st.annotations, annotation)]

\* EditorState::push_annotation.
push_annotation(st, annotation) ==
    [st EXCEPT !.annotations = Append(st.annotations, annotation),
               !.redo = <<>>]

Front(s) == SubSeq(s, 1, Len(s) - 1)

Last(s) == s[Len(s)]

\* A mutant of undo: the popped annotation is dropped, not pushed on redo.
undo_drop(st) ==
    IF Len(st.annotations) > 0
    THEN [st EXCEPT !.annotations = Front(st.annotations)]
    ELSE st

\* A mutant of undo: an in-progress draft is what undo takes back.
undo_draft(st) ==
    IF st.draft # None
    THEN [st EXCEPT !.draft = None, !.redo = Append(st.redo, st.draft[1])]
    ELSE IF Len(st.annotations) > 0
    THEN [st EXCEPT !.annotations = Front(st.annotations),
                    !.redo = Append(st.redo, Last(st.annotations))]
    ELSE st

\* EditorState::undo.
undo(st) ==
    IF Len(st.annotations) > 0
    THEN [st EXCEPT !.annotations = Front(st.annotations),
                    !.redo = Append(st.redo, Last(st.annotations))]
    ELSE st

\* A variant of redo that brings back the oldest undone annotation.
redo_oldest(st) ==
    IF Len(st.redo) > 0
    THEN [st EXCEPT !.redo = Tail(st.redo),
                    !.annotations = Append(st.annotations, Head(st.redo))]
    ELSE st

\* EditorState::redo.
redo(st) ==
    IF Len(st.redo) > 0
    THEN [st EXCEPT !.redo = Front(st.redo),
                    !.annotations = Append(st.annotations, Last(st.redo))]
    ELSE st

\* ------------------------------------------------------------------------
\* View transform.

MinFitScale == Q(1, 100)

MinZoomScale == Q(5, 100)

\* A variant of view_transform without the lower bound on the scale.
view_transform_unfloored(st) ==
    IF st.background = None
    THEN [scale |-> One, offset_x |-> Zero, offset_y |-> Zero]
    ELSE LET img_w == I2Q(IMax(st.background[1].width, 1))
             img_h == I2Q(IMax(st.background[1].height, 1))
             vp_w == I2Q(IMax(st.viewport_width, 1))
             vp_h == I2Q(IMax(st.viewport_height, 1))
             scale == IF st.fit_to_window
                      THEN QMin(QDiv(vp_w, img_w), QDiv(vp_h, img_h))
                      ELSE st.zoom
         IN  [scale |-> scale,
              offset_x |-> QMax(QDiv(QSub(vp_w, QMul(img_w, scale)), I2Q(2)), Zero),
              offset_y |-> QMax(QDiv(QSub(vp_h, QMul(img_h, scale)), I2Q(2)), Zero)]

\* view_transform: (scale, offset_x, offset_y).
view_transform(st) ==
    IF st.background = None
    THEN [scale |-> One, offset_x |-> Zero, offset_y |-> Zero]
    ELSE LET img_w == I2Q(IMax(st.background[1].width, 1))
             img_h == I2Q(IMax(st.background[1].height, 1))
             vp_w == I2Q(IMax(st.viewport_width, 1))
             vp_h == I2Q(IMax(st.viewport_height, 1))
             scale == IF st.fit_to_window
                      THEN QMax(QMin(QDiv(vp_w, img_w), QDiv(vp_h, img_h)), MinFitScale)
                      ELSE QMax(st.zoom, MinZoomScale)
             scaled_w == QMul(img_w, scale)
             scaled_h == QMul(img_h, scale)
         IN  [scale |-> scale,
              offset_x |-> QMax(QDiv(QSub(vp_w, scaled_w), I2Q(2)), Zero),
              offset_y |-> QMax(QDiv(QSub(vp_h, scaled_h), I2Q(2)), Zero)]

\* A variant of map_to_image that forgets the offset.
map_to_image_unshifted(st, x, y) ==
    LET t == view_transform(st)
    IN  Point(QMax(QDiv(x, t.scale), Zero), QMax(QDiv(y, t.scale), Zero))

\* map_to_image: view point to image point, floored at 0 on each axis.
map_to_image(st, x, y) ==
    LET t == view_transform(st)
    IN  Point(QMax(QDiv(QSub(x, t.offset_x), t.scale), Zero),
              QMax(QDiv(QSub(y, t.offset_y), t.scale), Zero))

\* ------------------------------------------------------------------------
\* Crop.

\* The clamping of apply_crop and draw_pixelate: the normalized rectangle
\* n against an image of max_w by max_h.
ClampToImage(n, max_w, max_h) ==
    LET x == QMin(QMax(n.x, Zero), max_w)
        y == QMin(QMax(n.y, Zero), max_h)
    IN  [x |-> x, y |-> y,
         w |-> QMax(QMin(n.w, QSub(max_w, x)), One),
         h |-> QMax(QMin(n.h, QSub(max_h, y)), One)]

\* The clamped rectangle apply_crop computes for rect on background bg.
CropClamp(bg, rect) ==
    ClampToImage(normalized(rect), I2Q(bg.width), I2Q(bg.height))

\* A variant that lets every rectangle through once there is a background.
CropRejected_background(st, rect) == st.background = None

\* Whether apply_crop(st, rect) takes one of its two early returns.
CropRejected(st, rect) ==
    \/ st.background = None
    \/ QLt(normalized(rect).w, One)
    \/ QLt(normalized(rect).h, One)

\* Whether the rounded rectangle apply_crop hands to new_subpixbuf lies
\* inside the background.
CropInside(st, rect) ==
    LET bg == st.background[1]
        c == CropClamp(bg, rect)
    IN  SubpixbufInside(bg, QRound(c.x), QRound(c.y), QRound(c.w), QRound(c.h))

\* A variant that rebases the redo stack as well.
CropCommit_redo(st, c, cropped) ==
    [st EXCEPT !.background = Some(cropped),
               !.annotations =
                   [i \in DOMAIN st.annotations |->
                       move_annotation(st.annotations[i], QNeg(c.x), QNeg(c.y))],
               !.redo =
                   [i \in DOMAIN st.redo |->
                       move_annotation(st.redo[i], QNeg(c.x), QNeg(c.y))],
               !.draft = None,
               !.crop_rect = None,
               !.selected = None]

\* The tail of apply_crop once the new background is known.
CropCommit(st, c, cropped) ==
    [st EXCEPT !.background = Some(cropped),
               !.annotations =
                   [i \in DOMAIN st.annotations |->
                       move_annotation(st.annotations[i], QNeg(c.x), QNeg(c.y))],
               !.draft = None,
               !.crop_rect = None,
               !.selected = None]

\* apply_crop: [ok, state, aborted].  fault says what the build does when
\* the rounded rectangle is outside the image.
apply_crop(st, rect, fault) ==
    IF CropRejected(st, rect)
    THEN [ok |-> FALSE, state |-> st, aborted |-> FALSE]
    ELSE LET bg == st.background[1]
             c == CropClamp(bg, rect)
         IN  IF CropInside(st, rect)
             THEN [ok |-> TRUE, aborted |-> FALSE,
                   state |-> CropCommit(st, c,
                       new_subpixbuf(bg, QRound(c.x), QRound(c.y),
                                     QRound(c.w), QRound(c.h)))]
             ELSE IF fault = "abort"
             THEN [ok |-> FALSE, state |-> st, aborted |-> TRUE]
             ELSE [ok |-> TRUE, aborted |-> FALSE,
                   state |-> CropCommit(st, c, NullPixbuf)]

\* ------------------------------------------------------------------------
\* Compositing.  A frame is the sequence of paint operations draw issues, in
\* device coordinates: every user-space coordinate goes through the current
\* transform (translate by the offset, then scale), as cairo applies it.

Dev(t, p) ==
    Point(QAdd(t.offset_x, QMul(t.scale, p.x)), QAdd(t.offset_y, QMul(t.scale, p.y)))

DevLen(t, l) == QMul(t.scale, l)

\* The rectangle (x, y, w, h) of user space, in device space.
DevBox(t, n) ==
    LET o == Dev(t, Point(n.x, n.y))
    IN  [x |-> o.x, y |-> o.y, w |-> DevLen(t, n.w), h |-> DevLen(t, n.h)]

ArrowMinLen2 == Q(1, 100)

\* A variant of draw_arrow_head that paints the head of every arrow.
draw_arrow_head_always(t, start, end, width, color) ==
    << [op |-> "arrow_head", start |-> Dev(t, start), end |-> Dev(t, end),
        width |-> DevLen(t, I2Q(width)), color |-> color] >>

\* draw_arrow_head: nothing when |end - start| <= 0.1, else the filled
\* triangle at end (given by the line it heads and the stroke width).
draw_arrow_head(t, start, end, width, color) ==
    LET dx == QSub(end.x, start.x)
        dy == QSub(end.y, start.y)
    IN  IF QLe(QAdd(QMul(dx, dx), QMul(dy, dy)), ArrowMinLen2)
        THEN <<>>
        ELSE << [op |-> "arrow_head", start |-> Dev(t, start), end |-> Dev(t, end),
                 width |-> DevLen(t, I2Q(width)), color |-> color] >>

\* The colour of pixel (x, y) of the pixel buffer named src: "flat" is of
\* one colour, every other buffer is striped in three colours.
ColorAt(src, x, y) == IF src = "flat" THEN 0 ELSE (x + 2 * y) % 3

\* The pixels of a Pixbuf, by position within it.
PixelsOf(img) ==
    [width |-> img.width, height |-> img.height,
     px |-> [p \in (0 .. img.width - 1) \X (0 .. img.height - 1) |->
                ColorAt(img.src, img.ox + p[1], img.oy + p[2])]]

\* Pixbuf::scale_simple(dest_w, dest_h, InterpType::Nearest): every pixel
\* of the result takes the colour of the source pixel under its centre.
scale_simple(g, dest_w, dest_h) ==
    [width |-> dest_w, height |-> dest_h,
     px |-> [p \in (0 .. dest_w - 1) \X (0 .. dest_h - 1) |->
                g.px[<<((2 * p[1] + 1) * g.width) \div (2 * dest_w),
                       ((2 * p[2] + 1) * g.height) \div (2 * dest_h)>>]]]

\* The body of draw_pixelate once the region c is clamped: the x, y, w, h
\* handed to new_subpixbuf and the size of the mosaic.
pixelate_region(t, c, x, y, w, h, small_w, small_h, background, fault) ==
    IF SubpixbufInside(background, x, y, w, h)
    THEN [aborted |-> FALSE,
          ops |-> << [op |-> "pixelate", clip |-> DevBox(t, c),
                      at |-> Dev(t, Point(c.x, c.y)),
                      scale |-> t.scale,
                      sub |-> new_subpixbuf(background, x, y, w, h),
                      small_w |-> small_w, small_h |-> small_h,
                      w |-> w, h |-> h,
                      pixelated |->
                          scale_simple(
                              scale_simple(
                                  PixelsOf(new_subpixbuf(background, x, y, w, h)),
                                  small_w, small_h),
                              w, h)] >>]
    ELSE [aborted |-> fault = "abort", ops |-> <<>>]

\* The clamped region of draw_pixelate, rounded as the code rounds it.
pixelate_clamped(t, c, pixel_size, background, fault) ==
    pixelate_region(t, c, QRound(c.x), QRound(c.y), QRound(c.w), QRound(c.h),
                    QRound(QMax(QDiv(c.w, I2Q(pixel_size)), One)),
                    QRound(QMax(QDiv(c.h, I2Q(pixel_size)), One)),
                    background, fault)

\* The normalized rectangle n of draw_pixelate.
pixelate_normalized(t, n, pixel_size, background, fault) ==
    IF QLt(n.w, One) \/ QLt(n.h, One)
    THEN [aborted |-> FALSE, ops |-> <<>>]
    ELSE pixelate_clamped(t, ClampToImage(n, I2Q(background.width),
                                          I2Q(background.height)),
                          pixel_size, background, fault)

\* draw_pixelate: [aborted, ops].
draw_pixelate(t, rect, pixel_size, background, fault) ==
    pixelate_normalized(t, normalized(rect), pixel_size, background, fault)

\* draw_annotation: [aborted, ops], the paint recipe of one annotation.
draw_annotation(t, a, background, fault) ==
    CASE a.kind = "Pen" ->
           [aborted |-> FALSE,
            ops |-> IF Len(a.points) < 2 THEN <<>>
                    ELSE << [op |-> "polyline",
                             points |-> [i \in DOMAIN a.points |-> Dev(t, a.points[i])],
                             color |-> a.color,
                             width |-> DevLen(t, I2Q(a.width))] >>]
      [] a.kind = "Rect" ->
           [aborted |-> FALSE,
            ops |-> << [op |-> "rect", box |-> DevBox(t, normalized(a.rect)),
                        color |-> a.color, width |-> DevLen(t, I2Q(a.width))] >>]
      [] a.kind = "Line" ->
           [aborted |-> FALSE,
            ops |-> << [op |-> "line", start |-> Dev(t, a.start), end |-> Dev(t, a.end),
                        color |-> a.color, width |-> DevLen(t, I2Q(a.width))] >>
                    \o (IF a.arrow
                        THEN draw_arrow_head(t, a.start, a.end, a.width, a.color)
                        ELSE <<>>)]
      [] a.kind = "Text" ->
           [aborted |-> FALSE,
            ops |-> << [op |-> "text", pos |-> Dev(t, a.pos), text |-> a.text,
                        color |-> a.color, size |-> DevLen(t, I2Q(a.size))] >>]
      [] a.kind = "Blur" ->
           IF background = None THEN [aborted |-> FALSE, ops |-> <<>>]
           ELSE draw_pixelate(t, a.rect, a.pixel_size, background[1], fault)

\* A variant of PaintFrom that paints the last annotation first.
RECURSIVE PaintFrom_reversed(_, _, _, _, _)
PaintFrom_reversed(t, anns, i, background, fault) ==
    IF i > Len(anns) THEN [aborted |-> FALSE, ops |-> <<>>]
    ELSE LET one == draw_annotation(t, anns[i], background, fault)
         IN  IF one.aborted THEN one
             ELSE LET rest == PaintFrom_reversed(t, anns, i + 1, background, fault)
                  IN  [aborted |-> rest.aborted, ops |-> rest.ops \o one.ops]

\* The paint operations of annotations i.. of the sequence, in order.
RECURSIVE PaintFrom(_, _, _, _, _)
PaintFrom(t, anns, i, background, fault) ==
    IF i > Len(anns) THEN [aborted |-> FALSE, ops |-> <<>>]
    ELSE LET one == draw_annotation(t, anns[i], background, fault)
         IN  IF one.aborted THEN one
             ELSE LET rest == PaintFrom(t, anns, i + 1, background, fault)
                  IN  [aborted |-> rest.aborted, ops |-> one.ops \o rest.ops]

\* The body of draw under transform t: background, annotations then the
\* draft, the crop outline, the selection highlight.  Indexing annotations
\* with a stale selected panics.
Composite(st, t, fault) ==
    LET bg == IF st.background = None THEN <<>>
              ELSE << [op |-> "background", at |-> Dev(t, Point(Zero, Zero)),
                       scale |-> t.scale, image |-> st.background[1]] >>
        anns == PaintFrom(t, st.annotations \o st.draft, 1, st.background, fault)
        crop == IF st.crop_rect = None THEN <<>>
                ELSE << [op |-> "crop_outline",
                         box |-> DevBox(t, normalized(st.crop_rect[1]))] >>
        stale == st.selected # None /\ st.selected[1] >= Len(st.annotations)
        sel == IF st.selected = None \/ stale THEN <<>>
               ELSE LET b == annotation_bounds(st.annotations[st.selected[1] + 1])
                    IN  IF b = None THEN <<>>
                        ELSE << [op |-> "selection",
                                 box |-> DevBox(t, normalized(b[1]))] >>
    IN  IF anns.aborted \/ stale
        THEN [aborted |-> TRUE, ops |-> <<>>]
        ELSE [aborted |-> FALSE, ops |-> bg \o anns.ops \o crop \o sel]

IdentityTransform == [scale |-> One, offset_x |-> Zero, offset_y |-> Zero]

\* draw: [aborted, ops], composited under view_transform(state).
draw(st, fault) == Composite(st, view_transform(st), fault)

\* render_to_pixbuf: [aborted, image]; image is None without a (valid)
\* background, else Some of the surface size and what draw painted on it.
render_to_pixbuf(st, fault) ==
    IF st.background = None \/ st.background[1].width <= 0
       \/ st.background[1].height <= 0
    THEN [aborted |-> FALSE, image |-> None]
    ELSE LET d == draw(st, fault)
         IN  IF d.aborted THEN [aborted |-> TRUE, image |-> None]
             ELSE [aborted |-> FALSE,
                   image |-> Some([width |-> st.background[1].width,
                                   height |-> st.background[1].height,
                                   ops |-> d.ops])]

\* ------------------------------------------------------------------------
\* Event handlers of build_ui_for_window, as functions of the EditorState.

BlurPixelSize == 10

DefaultText == "Text"

\* A variant of ZeroRect anchored at the origin.
ZeroRect_origin(p) == Rect(Zero, Zero, p.x, p.y)

ZeroRect(p) == Rect(p.x, p.y, p.x, p.y)

\* drag.connect_drag_begin at view point (x, y).
drag_begin(st, x, y) ==
    LET point == map_to_image(st, x, y)
        s1 == [st EXCEPT !.drag_start_view = Some(Point(x, y))]
    IN  CASE s1.tool = "Select" ->
               LET hit == hit_test(s1.annotations, point)
               IN  IF hit = None THEN [s1 EXCEPT !.selected = None]
                   ELSE [s1 EXCEPT !.selected = hit,
                                   !.draft = None,
                                   !.crop_rect = None,
                                   !.selected_original = Some(s1.annotations[hit[1] + 1])]
          [] s1.tool = "Crop" ->
               [s1 EXCEPT !.selected = None,
                          !.draft = None,
                          !.crop_rect = Some(ZeroRect(point))]
          [] s1.tool = "Pen" ->
               [s1 EXCEPT !.draft = Some(Pen(<<point>>, s1.color, s1.stroke_width))]
          [] s1.tool = "Rect" ->
               [s1 EXCEPT !.draft = Some(RectAnn(ZeroRect(point), s1.color, s1.stroke_width))]
          [] s1.tool \in {"Line", "Arrow"} ->
               [s1 EXCEPT !.draft = Some(Line(point, point, s1.color, s1.stroke_width,
                                              s1.tool = "Arrow"))]
          [] s1.tool = "Blur" ->
               [s1 EXCEPT !.draft = Some(Blur(ZeroRect(point), BlurPixelSize))]
          [] s1.tool = "Text" ->
               [s1 EXCEPT !.draft = None]

\* A variant of ExtendTo that leaves the draft as it is.
ExtendTo_keep(a, p) == a

\* The draft (or any annotation) with its last point / second corner set to p.
ExtendTo(a, p) ==
    CASE a.kind = "Pen" -> [a EXCEPT !.points = Append(a.points, p)]
      [] a.kind = "Rect" -> [a EXCEPT !.rect.x2 = p.x, !.rect.y2 = p.y]
      [] a.kind = "Line" -> [a EXCEPT !.end = p]
      [] a.kind = "Blur" -> [a EXCEPT !.rect.x2 = p.x, !.rect.y2 = p.y]
      [] OTHER -> a

\* A variant of drag_update whose Select branch treats the move as a new
\* edit: the redo stack is cleared.
drag_update_edit(st, offset_x, offset_y) ==
    IF st.drag_start_view = None THEN [state |-> st, aborted |-> FALSE]
    ELSE
    LET start == st.drag_start_view[1]
        current == map_to_image(st, QAdd(start.x, offset_x), QAdd(start.y, offset_y))
    IN  CASE st.tool = "Select" ->
               IF st.selected # None /\ st.selected_original # None
               THEN LET index == st.selected[1]
                        start_img == map_to_image(st, start.x, start.y)
                        moved == move_annotation(st.selected_original[1],
                                     QSub(current.x, start_img.x),
                                     QSub(current.y, start_img.y))
                    IN  IF index >= Len(st.annotations)
                        THEN [state |-> st, aborted |-> TRUE]
                        ELSE [state |-> [st EXCEPT !.annotations[index + 1] = moved,
                                                   !.redo = <<>>],
                              aborted |-> FALSE]
               ELSE [state |-> st, aborted |-> FALSE]
          [] st.tool = "Crop" ->
               [state |-> IF st.crop_rect = None THEN st
                          ELSE [st EXCEPT !.crop_rect[1].x2 = current.x,
                                          !.crop_rect[1].y2 = current.y],
                aborted |-> FALSE]
          [] OTHER ->
               [state |-> IF st.draft = None THEN st
                          ELSE [st EXCEPT !.draft = Some(ExtendTo(st.draft[1], current))],
                aborted |-> FALSE]

\* drag.connect_drag_update with offset (offset_x, offset_y): [state, aborted].
drag_update(st, offset_x, offset_y) ==
    IF st.drag_start_view = None THEN [state |-> st, aborted |-> FALSE]
    ELSE
    LET start == st.drag_start_view[1]
        current == map_to_image(st, QAdd(start.x, offset_x), QAdd(start.y, offset_y))
    IN  CASE st.tool = "Select" ->
               IF st.selected # None /\ st.selected_original # None
               THEN LET index == st.selected[1]
                        start_img == map_to_image(st, start.x, start.y)
                        moved == move_annotation(st.selected_original[1],
                                     QSub(current.x, start_img.x),
                                     QSub(current.y, start_img.y))
                    IN  IF index >= Len(st.annotations)
                        THEN [state |-> st, aborted |-> TRUE]
                        ELSE [state |-> [st EXCEPT !.annotations[index + 1] = moved],
                              aborted |-> FALSE]
               ELSE [state |-> st, aborted |-> FALSE]
          [] st.tool = "Crop" ->
               [state |-> IF st.crop_rect = None THEN st
                          ELSE [st EXCEPT !.crop_rect[1].x2 = current.x,
                                          !.crop_rect[1].y2 = current.y],
                aborted |-> FALSE]
          [] OTHER ->
               [state |-> IF st.draft = None THEN st
                          ELSE [st EXCEPT !.draft = Some(ExtendTo(st.draft[1], current))],
                aborted |-> FALSE]

\* A variant of CropDone that leaves the view as it was.
CropDone_keep(st) == st

\* What the Crop branch of drag_end does to the state once apply_crop has
\* returned true.
CropDone(st) == [st EXCEPT !.fit_to_window = TRUE, !.zoom = One]

\* A variant of drag_end that commits a draft only when the pointer moved.
drag_end_moved(st, offset_x, offset_y, fault) ==
    LET quiet == [state |-> st, aborted |-> FALSE, did_crop |-> FALSE,
                  crop_tried |-> FALSE, pushed |-> None]
    IN
    IF st.drag_start_view = None THEN quiet
    ELSE
    LET start == st.drag_start_view[1]
        s1 == [st EXCEPT !.drag_start_view = None]
        end == map_to_image(s1, QAdd(start.x, offset_x), QAdd(start.y, offset_y))
    IN  CASE s1.tool = "Select" ->
               [quiet EXCEPT !.state = [s1 EXCEPT !.selected_original = None]]
          [] s1.tool = "Crop" ->
               IF s1.crop_rect = None
               THEN [quiet EXCEPT !.state = s1]
               ELSE LET r == apply_crop(s1, s1.crop_rect[1], fault)
                    IN  [quiet EXCEPT
                           !.state = IF r.ok THEN CropDone(r.state) ELSE r.state,
                           !.aborted = r.aborted,
                           !.did_crop = r.ok,
                           !.crop_tried = TRUE]
          [] OTHER ->
               IF s1.draft = None \/ (offset_x = Zero /\ offset_y = Zero)
               THEN [quiet EXCEPT !.state = [s1 EXCEPT !.draft = None]]
               ELSE LET draft == ExtendTo(s1.draft[1], end)
                    IN  [quiet EXCEPT
                           !.state = push_annotation([s1 EXCEPT !.draft = None], draft),
                           !.pushed = Some(draft)]

\* drag.connect_drag_end with offset (offset_x, offset_y): the new state,
\* whether the process aborted, whether apply_crop was called (crop_tried)
\* and returned true (did_crop), and the annotation handed to
\* push_annotation, if any (pushed).
drag_end(st, offset_x, offset_y, fault) ==
    LET quiet == [state |-> st, aborted |-> FALSE, did_crop |-> FALSE,
                  crop_tried |-> FALSE, pushed |-> None]
    IN
    IF st.drag_start_view = None THEN quiet
    ELSE
    LET start == st.drag_start_view[1]
        s1 == [st EXCEPT !.drag_start_view = None]
        end == map_to_image(s1, QAdd(start.x, offset_x), QAdd(start.y, offset_y))
    IN  CASE s1.tool = "Select" ->
               [quiet EXCEPT !.state = [s1 EXCEPT !.selected_original = None]]
          [] s1.tool = "Crop" ->
               IF s1.crop_rect = None
               THEN [quiet EXCEPT !.state = s1]
               ELSE LET r == apply_crop(s1, s1.crop_rect[1], fault)
                    IN  [quiet EXCEPT
                           !.state = IF r.ok THEN CropDone(r.state) ELSE r.state,
                           !.aborted = r.aborted,
                           !.did_crop = r.ok,
                           !.crop_tried = TRUE]
          [] OTHER ->
               IF s1.draft = None THEN [quiet EXCEPT !.state = s1]
               ELSE LET draft == ExtendTo(s1.draft[1], end)
                    IN  [quiet EXCEPT
                           !.state = push_annotation([s1 EXCEPT !.draft = None], draft),
                           !.pushed = Some(draft)]

\* A variant of click_pressed that parks the text in the draft slot.
click_pressed_draft(st, x, y) ==
    IF st.tool = "Text"
    THEN [st EXCEPT !.draft = Some(Text(map_to_image(st, x, y), DefaultText,
                                        st.color, st.text_size))]
    ELSE st

\* click.connect_pressed at view point (x, y).
click_pressed(st, x, y) ==
    LET pos == map_to_image(st, x, y)
    IN  CASE st.tool = "Text" ->
               push_annotation(st, Text(pos, DefaultText, st.color, st.text_size))
          [] st.tool = "Select" ->
               LET hit == hit_test(st.annotations, pos)
               IN  [st EXCEPT !.selected = hit,
                              !.selected_original =
                                  IF hit = None THEN None
                                  ELSE Some(st.annotations[hit[1] + 1])]
          [] OTHER -> st

\* A variant of tool_toggled that only switches the tool.
tool_toggled_keep(st, tool) == [st EXCEPT !.tool = tool]

\* The toggled handler of a tool button that became active.
tool_toggled(st, tool) ==
    [st EXCEPT !.tool = tool,
               !.draft = None,
               !.crop_rect = None,
               !.selected = None,
               !.selected_original = None]

\* A variant of apply_background that keeps what is being drawn.
apply_background_keep(st, pixbuf) ==
    [st EXCEPT !.background = Some(pixbuf),
               !.annotations = <<>>,
               !.redo = <<>>,
               !.drag_start_view = None,
               !.selected = None,
               !.selected_original = None,
               !.crop_rect = None,
               !.fit_to_window = TRUE,
               !.zoom = One]

\* The state part of apply_background.
apply_background(st, pixbuf) ==
    [set_background(st, pixbuf) EXCEPT !.fit_to_window = TRUE, !.zoom = One]

\* ------------------------------------------------------------------------
\* The Fit toggle and the zoom adjustment.  Changing a widget emits its
\* signal at once, inside the handler that changes it.  A handler runs on
\* a world: the EditorState st, the two widgets (fit_active, zoom_value),
\* the two guard flags, whether the RefCell is mutably borrowed (borrowed),
\* whether a handler tried to borrow it while it was (reentered: the
\* process panics) and whether a handler changed a widget outside its
\* guard flag (unbracketed).

\* gtk::Adjustment::new(1.0, 0.25, 3.0, ..): the value stays in [lower, upper].
ZoomLower == Q(1, 4)

ZoomUpper == I2Q(3)

ZoomClamp(v) == QMin(QMax(v, ZoomLower), ZoomUpper)

World(st, u) ==
    [st |-> st, fit_active |-> u.fit_active, zoom_value |-> u.zoom_value,
     fit_updating |-> u.fit_updating, zoom_updating |-> u.zoom_updating,
     borrowed |-> FALSE, reentered |-> u.reentered, unbracketed |-> u.unbracketed]

\* The widgets of world w, in the record u of everything the handlers share.
Widgets(u, w) ==
    [u EXCEPT !.fit_active = w.fit_active, !.zoom_value = w.zoom_value,
              !.fit_updating = w.fit_updating, !.zoom_updating = w.zoom_updating,
              !.unbracketed = w.unbracketed, !.reentered = w.reentered]

RECURSIVE fit_toggled(_)
RECURSIVE zoom_value_changed(_)

\* ToggleButton::set_active from a handler: "toggled" is emitted when the
\* state changes.
fit_toggle_set_active(w, active) ==
    LET w1 == [w EXCEPT !.unbracketed = @ \/ ~w.fit_updating]
    IN  IF active = w.fit_active THEN w1
        ELSE fit_toggled([w1 EXCEPT !.fit_active = active])

\* Adjustment::set_value from a handler: the value is clamped and
\* "value-changed" is emitted when it changes.
zoom_adjustment_set_value(w, value) ==
    LET w1 == [w EXCEPT !.unbracketed = @ \/ ~w.zoom_updating]
    IN  IF ZoomClamp(value) = w.zoom_value THEN w1
        ELSE zoom_value_changed([w1 EXCEPT !.zoom_value = ZoomClamp(value)])

\* A variant of the zoom handler without the zoom_updating guard.
zoom_value_changed_unguarded(w) ==
    IF w.borrowed THEN [w EXCEPT !.reentered = TRUE]
    ELSE LET w1 == IF w.st.fit_to_window
                   THEN [fit_toggle_set_active([w EXCEPT !.fit_updating = TRUE], FALSE)
                           EXCEPT !.fit_updating = FALSE]
                   ELSE w
         IN  [w1 EXCEPT !.st.fit_to_window = FALSE, !.st.zoom = w1.zoom_value]

\* zoom_adjustment.connect_value_changed.
zoom_value_changed(w) ==
    IF w.zoom_updating THEN w
    ELSE IF w.borrowed THEN [w EXCEPT !.reentered = TRUE]
    ELSE LET w1 == IF w.st.fit_to_window
                   THEN [fit_toggle_set_active([w EXCEPT !.fit_updating = TRUE], FALSE)
                           EXCEPT !.fit_updating = FALSE]
                   ELSE w
         IN  [w1 EXCEPT !.st.fit_to_window = FALSE, !.st.zoom = w1.zoom_value]

\* fit_toggle.connect_toggled.
fit_toggled(w) ==
    IF w.fit_updating THEN w
    ELSE IF w.borrowed THEN [w EXCEPT !.reentered = TRUE]
    ELSE LET w1 == [w EXCEPT !.borrowed = TRUE, !.st.fit_to_window = w.fit_active]
             w2 == IF w1.st.fit_to_window
                   THEN [zoom_adjustment_set_value([w1 EXCEPT !.zoom_updating = TRUE],
                                                   view_transform(w1.st).scale)
                           EXCEPT !.zoom_updating = FALSE]
                   ELSE w1
         IN  [w2 EXCEPT !.borrowed = FALSE]

\* zoom_reset.connect_clicked (100%).
zoom_reset_clicked(w) ==
    LET w1 == [w EXCEPT !.borrowed = TRUE, !.st.fit_to_window = FALSE, !.st.zoom = One]
        w2 == [zoom_adjustment_set_value([w1 EXCEPT !.zoom_updating = TRUE], One)
                 EXCEPT !.zoom_updating = FALSE]
    IN  [w2 EXCEPT !.borrowed = FALSE]

\* The zoom factor of one ctrl-scroll step: 1.1 up (dy < 0), 0.9 down.
ScrollFactor(dy) == IF dy < 0 THEN Q(11, 10) ELSE Q(9, 10)

\* scroll.connect_scroll with the Control key held.
scroll(w, dy) ==
    LET w1 == [w EXCEPT !.borrowed = TRUE, !.st.fit_to_window = FALSE]
        w2 == [fit_toggle_set_active([w1 EXCEPT !.fit_updating = TRUE], FALSE)
                 EXCEPT !.fit_updating = FALSE]
        w3 == [w2 EXCEPT !.st.zoom = ZoomClamp(QMul(w2.st.zoom, ScrollFactor(dy)))]
        w4 == [zoom_adjustment_set_value([w3 EXCEPT !.zoom_updating = TRUE], w3.st.zoom)
                 EXCEPT !.zoom_updating = FALSE]
    IN  [w4 EXCEPT !.borrowed = FALSE]

\* The widget part of apply_background and of a gesture end that cropped:
\* Fit on and the slider at 1, each under its guard flag, the state no
\* longer borrowed.
reset_view_widgets(w) ==
    LET w1 == [fit_toggle_set_active([w EXCEPT !.fit_updating = TRUE], TRUE)
                 EXCEPT !.fit_updating = FALSE]
    IN  [zoom_adjustment_set_value([w1 EXCEPT !.zoom_updating = TRUE], One)
           EXCEPT !.zoom_updating = FALSE]

\* ------------------------------------------------------------------------
\* The state machine.

VARIABLES
    state,      \* the EditorState shared by the handlers (Rc<RefCell<..>>)
    ui,         \* what the handlers share besides the state: the Fit toggle,
                \* the capture button, the capture tasks and the channel
    gesture,    \* whether the GTK drag gesture is between begin and end
    crashed,    \* the process has aborted (a panic inside a callback)
    last        \* the last event handled: its name, result and argument,
                \* and what the session held when it arrived

vars == <<state, ui, gesture, crashed, last>>

\* The caps that keep the reachable states finite.
CoordOK(q) == IAbs(q[1]) <= MaxCoord * q[2]

PointOK(p) == CoordOK(p.x) /\ CoordOK(p.y)

RectOK(r) == CoordOK(r.x1) /\ CoordOK(r.y1) /\ CoordOK(r.x2) /\ CoordOK(r.y2)

AnnOK(a) ==
    CASE a.kind = "Pen" ->
           /\ Len(a.points) <= MaxPts
           /\ \A i \in DOMAIN a.points : PointOK(a.points[i])
      [] a.kind = "Line" -> PointOK(a.start) /\ PointOK(a.end)
      [] a.kind = "Text" -> PointOK(a.pos)
      [] OTHER -> RectOK(a.rect)

Bounded(st) ==
    /\ Len(st.annotations) + Len(st.redo) <= MaxAnn
    /\ \A i \in DOMAIN st.annotations : AnnOK(st.annotations[i])
    /\ st.draft # None =>
         /\ Len(st.annotations) < MaxAnn
         /\ st.draft[1].kind = "Pen" => Len(st.draft[1].points) < MaxPts

\* What the session held when an event arrived.
Held(st) ==
    [na |-> Len(st.annotations) > 0, nr |-> Len(st.redo) > 0,
     draft |-> st.draft # None, sel |-> st.selected # None,
     crop |-> st.crop_rect # None]

NoHeld == [na |-> FALSE, nr |-> FALSE, draft |-> FALSE, sel |-> FALSE, crop |-> FALSE]

\* at is the view point of a gesture end (its other data fill arg).
Event(op, ok, arg, pre) ==
    [op |-> op, ok |-> ok, arg |-> arg, pre |-> pre, at |-> None]

\* last after an event: an event that changes nothing leaves no trace.
Record(ev) ==
    IF <<state', ui', gesture', crashed'>> = <<state, ui, gesture, crashed>>
    THEN last ELSE ev

\* The widgets and the capture plumbing right after construction: the Fit
\* toggle is active, the zoom adjustment at 1, both guard flags down, the
\* capture button sensitive, no capture task is running, the channel is
\* empty and nothing has been painted on the drawing area (frame).
\* captures counts the clicks so far.
NewUi ==
    [fit_active |-> TRUE, zoom_value |-> One,
     fit_updating |-> FALSE, zoom_updating |-> FALSE,
     unbracketed |-> FALSE, reentered |-> FALSE,
     capture_sensitive |-> TRUE, captures |-> 0,
     tasks |-> {}, channel |-> <<>>, frame |-> <<>>]

\* The session right after construction.
Init ==
    /\ state = NewState
    /\ ui = NewUi
    /\ gesture = FALSE
    /\ crashed = FALSE
    /\ last = Event("init", TRUE, None, NoHeld)

\* apply_background: a loaded, captured or pasted image becomes the background.
ApplyBackground(img) ==
    /\ ~crashed
    /\ LET w == reset_view_widgets(World(apply_background(state, img), ui))
       IN  /\ state' = w.st
           /\ ui' = Widgets(ui, w)
           /\ crashed' = w.reentered
    /\ UNCHANGED gesture
    /\ last' = Record(Event("apply_background", TRUE, Some(img), Held(state)))

\* drawing_area.set_draw_func: record the viewport, then draw; what draw
\* painted is the new content of the drawing area.
DrawFunc(width, height, fault) ==
    /\ ~crashed
    /\ LET s1 == [state EXCEPT !.viewport_width = width, !.viewport_height = height]
           d == draw(s1, fault)
       IN  /\ state' = s1
           /\ crashed' = d.aborted
           /\ ui' = IF d.aborted THEN ui ELSE [ui EXCEPT !.frame = d.ops]
           /\ UNCHANGED gesture
           /\ last' = Record(Event("draw", ~d.aborted, None, NoHeld))

\* The drawing area shows the current state.
Fresh == draw(state, "null") = [aborted |-> FALSE, ops |-> ui.frame]

DragBegin(p) ==
    /\ ~crashed /\ ~gesture
    /\ state' = drag_begin(state, p.x, p.y)
    /\ Bounded(state')
    /\ gesture' = TRUE
    /\ UNCHANGED <<ui, crashed>>
    /\ last' = Record(Event("drag_begin", TRUE, Some(p), NoHeld))

\* The offset that takes the gesture from its anchor to view point p.
OffsetTo(p) ==
    IF state.drag_start_view = None THEN p
    ELSE Point(QSub(p.x, state.drag_start_view[1].x),
               QSub(p.y, state.drag_start_view[1].y))

DragUpdate(p) ==
    /\ ~crashed /\ gesture
    /\ LET r == drag_update(state, OffsetTo(p).x, OffsetTo(p).y)
       IN  /\ state' = r.state
           /\ Bounded(r.state)
           /\ crashed' = r.aborted
           /\ UNCHANGED <<ui, gesture>>
           /\ last' = Record(Event("drag_update", ~r.aborted, Some(p), NoHeld))

\* The name of a drag end: by what the handler went on to call.
EndKind(r) ==
    IF r.crop_tried THEN "drag_end_crop"
    ELSE IF r.pushed # None THEN "commit" ELSE "drag_end"

\* The tail of the drag_end handler: r is what its borrow of the state
\* produced, w the world after the widget changes that follow a crop.
DragEnded(p, r, w) ==
    /\ state' = w.st
    /\ Bounded(w.st)
    /\ crashed' = (r.aborted \/ w.reentered)
    /\ ui' = Widgets(ui, w)
    /\ gesture' = FALSE
    /\ last' = Record([Event(EndKind(r),
                             IF r.crop_tried THEN r.did_crop ELSE TRUE,
                             r.pushed,
                             IF r.pushed # None THEN Held(state) ELSE NoHeld)
                        EXCEPT !.at = Some(p)])

DragEnd(p, fault) ==
    /\ ~crashed /\ gesture
    /\ LET r == drag_end(state, OffsetTo(p).x, OffsetTo(p).y, fault)
       IN  DragEnded(p, r, IF r.did_crop
                           THEN reset_view_widgets(World(r.state, ui))
                           ELSE World(r.state, ui))

ClickPressed(p) ==
    /\ ~crashed
    /\ state' = click_pressed(state, p.x, p.y)
    /\ Bounded(state')
    /\ UNCHANGED <<ui, gesture, crashed>>
    /\ last' = Record(IF state.tool = "Text"
                      THEN Event("click_text", TRUE, Some(p), Held(state))
                      ELSE Event("click", TRUE, Some(p), NoHeld))

ToolToggled(tool) ==
    /\ ~crashed
    /\ state' = tool_toggled(state, tool)
    /\ UNCHANGED <<ui, gesture, crashed>>
    /\ last' = Record(Event("tool", TRUE, Some(tool), NoHeld))

\* The toggled handler of a colour swatch that became active.
ColorToggled(color) ==
    /\ ~crashed
    /\ state' = [state EXCEPT !.color = color]
    /\ UNCHANGED <<ui, gesture, crashed>>
    /\ last' = Record(Event("color", TRUE, Some(color), NoHeld))

\* size_spin.connect_value_changed.
SizeChanged(width) ==
    /\ ~crashed
    /\ state' = [state EXCEPT !.stroke_width = width]
    /\ UNCHANGED <<ui, gesture, crashed>>
    /\ last' = Record(Event("size", TRUE, Some(width), NoHeld))

\* undo_button.connect_clicked.
Undo ==
    /\ ~crashed
    /\ state' = undo(state)
    /\ Bounded(state')
    /\ UNCHANGED <<ui, gesture, crashed>>
    /\ last' = Record(Event("undo", TRUE, None, Held(state)))

\* redo_button.connect_clicked.
Redo ==
    /\ ~crashed
    /\ state' = redo(state)
    /\ Bounded(state')
    /\ UNCHANGED <<ui, gesture, crashed>>
    /\ last' = Record(Event("redo", TRUE, None, Held(state)))

\* copy_button / save_button: flatten the session for export.
ExportClicked(fault) ==
    /\ ~crashed
    /\ LET r == render_to_pixbuf(state, fault)
       IN  /\ crashed' = r.aborted
           /\ UNCHANGED <<state, ui, gesture>>
           /\ last' = Record(Event("export", r.image # None, None, NoHeld))

\* zoom_adjustment.connect_value_changed, the slider moved to value.
ZoomChanged(value) ==
    /\ ~crashed
    /\ ZoomClamp(value) # ui.zoom_value
    /\ LET w == zoom_value_changed([World(state, ui) EXCEPT
                                       !.zoom_value = ZoomClamp(value)])
       IN  /\ state' = w.st
           /\ ui' = Widgets(ui, w)
           /\ crashed' = w.reentered
    /\ UNCHANGED gesture
    /\ last' = Record(Event("zoom", TRUE, Some(value), NoHeld))

\* fit_toggle.connect_toggled, the user flips the Fit toggle.
FitToggled ==
    /\ ~crashed
    /\ LET w == fit_toggled([World(state, ui) EXCEPT !.fit_active = ~ui.fit_active])
       IN  /\ state' = w.st
           /\ ui' = Widgets(ui, w)
           /\ crashed' = w.reentered
    /\ UNCHANGED gesture
    /\ last' = Record(Event("fit", TRUE, None, NoHeld))

\* zoom_reset.connect_clicked (100%).
ZoomReset ==
    /\ ~crashed
    /\ LET w == zoom_reset_clicked(World(state, ui))
       IN  /\ state' = w.st
           /\ ui' = Widgets(ui, w)
           /\ crashed' = w.reentered
    /\ UNCHANGED gesture
    /\ last' = Record(Event("zoom_reset", TRUE, None, NoHeld))

\* scroll.connect_scroll with the Control key held, one step up (dy < 0)
\* or down.
Scroll(dy) ==
    /\ ~crashed
    /\ LET w == scroll(World(state, ui), dy)
       IN  /\ w.st.zoom[2] <= MaxZoomDen
           /\ state' = w.st
           /\ ui' = Widgets(ui, w)
           /\ crashed' = w.reentered
    /\ UNCHANGED gesture
    /\ last' = Record(Event("scroll", TRUE, Some(dy), NoHeld))

\* ------------------------------------------------------------------------
\* Capture: the button spawns a task on the runtime, the task sends one
\* Result on the mpsc channel, the 100 ms timer on the main thread drains
\* the channel.  A result is [id, kind]: kind "ok" is a URI whose file
\* loads, "unreadable" a URI whose file does not load, "nopath" a URI
\* without a local path, "error" a failed request.

MaxCaptures == 3

ResultKinds == {"ok", "unreadable", "nopath", "error"}

CaptureNames == <<"c1", "c2", "c3", "c4">>

\* The image Pixbuf::from_file loads for an "ok" result.
CaptureImage(result) == Pixbuf(4, 3, CaptureNames[result.id], 0, 0)

\* A variant of receive_result that stores the image without going
\* through set_background.
receive_result_overwrite(st, result) ==
    IF result.kind = "ok"
    THEN [st EXCEPT !.background = Some(CaptureImage(result)),
                    !.fit_to_window = TRUE, !.zoom = One]
    ELSE st

\* The body of the receiver loop for one result.
receive_result(st, result) ==
    IF result.kind = "ok" THEN apply_background(st, CaptureImage(result)) ELSE st

\* The body of the receiver loop on a world: apply_background sets the
\* widgets after the state.
receive_result_widgets(w, result) ==
    LET w1 == [w EXCEPT !.st = receive_result(w.st, result)]
    IN  IF result.kind = "ok" THEN reset_view_widgets(w1) ELSE w1

\* while let Ok(result) = receiver.try_recv() { .. }, from the i-th queued
\* result on.
RECURSIVE receive_from(_, _, _)
receive_from(w, channel, i) ==
    IF i > Len(channel) THEN w
    ELSE receive_from(receive_result_widgets(w, channel[i]), channel, i + 1)

\* capture_button.connect_clicked; an insensitive button delivers no click.
CaptureClicked ==
    /\ ~crashed
    /\ ui.capture_sensitive
    /\ ui.captures < MaxCaptures
    /\ ui' = [ui EXCEPT !.capture_sensitive = FALSE,
                        !.captures = @ + 1,
                        !.tasks = @ \cup {ui.captures + 1}]
    /\ UNCHANGED <<state, gesture, crashed>>
    /\ last' = Record(Event("capture", TRUE, Some(ui.captures + 1), NoHeld))

\* The tail of a spawned task: sender.send(result), after which the task
\* is over.
WorkerSend(kind) ==
    /\ ~crashed
    /\ UNCHANGED <<state, gesture, crashed>>
    /\ \E id \in ui.tasks :
          LET result == [id |-> id, kind |-> kind]
          IN  /\ ui' = [ui EXCEPT !.tasks = @ \ {id},
                                  !.channel = Append(@, result)]
              /\ last' = Record(Event("worker_send", TRUE, result, NoHeld))

\* A variant of the timer closure that re-enables the capture button only
\* when a capture succeeded.
ReceiverTick_ok ==
    /\ ~crashed
    /\ LET w == receive_from(World(state, ui), ui.channel, 1)
       IN  /\ state' = w.st
           /\ ui' = [Widgets(ui, w) EXCEPT
                        !.channel = <<>>,
                        !.capture_sensitive =
                            IF \E i \in DOMAIN ui.channel : ui.channel[i].kind = "ok"
                            THEN TRUE ELSE @]
           /\ crashed' = w.reentered
    /\ UNCHANGED gesture
    /\ last' = Record(Event("receive", TRUE, ui.channel, Held(state)))

\* One run of the glib::timeout_add_local closure.
ReceiverTick ==
    /\ ~crashed
    /\ LET w == receive_from(World(state, ui), ui.channel, 1)
       IN  /\ state' = w.st
           /\ ui' = [Widgets(ui, w) EXCEPT
                        !.channel = <<>>,
                        !.capture_sensitive = IF ui.channel = <<>> THEN @ ELSE TRUE]
           /\ crashed' = w.reentered
    /\ UNCHANGED gesture
    /\ last' = Record(Event("receive", TRUE, ui.channel, Held(state)))

\* ------------------------------------------------------------------------
\* Spec: the editing session.  Every tool, gestures that begin and end at
\* one view point, undo and redo, and background replacement.

SessionImage == Pixbuf(4, 3, "a", 0, 0)

SessionPt == Point(I2Q(2), I2Q(2))

Next ==
    \/ ApplyBackground(SessionImage)
    \/ DragBegin(SessionPt)
    \/ DragUpdate(SessionPt)
    \/ \E f \in SubpixbufFaults : DragEnd(SessionPt, f)
    \/ ClickPressed(SessionPt)
    \/ \E t \in Tools : ToolToggled(t)
    \/ Undo
    \/ Redo

Spec == Init /\ [][Next]_vars

\* ------------------------------------------------------------------------
\* Properties of the editing session (Spec).

\* C1: in every reachable state `selected` is absent or a valid index into
\* `annotations` (selected < len(annotations)).
SelectedValid ==
    state.selected = None \/ state.selected[1] < Len(state.annotations)

\* C2: every background replacement leaves annotations and redo empty,
\* draft, selected, selected_original and crop_rect absent, and the given
\* image installed as the background.
SetBackgroundClears ==
    [][last'.op = "apply_background" =>
         /\ state'.annotations = <<>>
         /\ state'.redo = <<>>
         /\ state'.draft = None
         /\ state'.selected = None
         /\ state'.selected_original = None
         /\ state'.crop_rect = None
         /\ state'.background = last'.arg]_vars

\* C2 witness: a background was installed over a session that held
\* annotations, a redo stack and a selection.
SetBackgroundWitness ==
    /\ last.op = "apply_background"
    /\ last.pre.na /\ last.pre.nr /\ last.pre.sel
    /\ state.background = Some(SessionImage)

\* C3: every commit (a gesture end that pushes its draft, a Text click)
\* leaves redo empty and appends exactly the committed annotation at the
\* end of annotations.
PushClearsRedo ==
    [][last'.op \in {"commit", "click_text"} =>
         /\ state'.redo = <<>>
         /\ Len(state'.annotations) = Len(state.annotations) + 1
         /\ Front(state'.annotations) = state.annotations
         /\ last'.op = "commit" =>
              /\ state.draft # None
              /\ Some(Last(state'.annotations)) = last'.arg
              /\ Last(state'.annotations).kind = state.draft[1].kind
         /\ last'.op = "click_text" =>
              Last(state'.annotations) =
                  Text(map_to_image(state, last'.arg[1].x, last'.arg[1].y),
                       DefaultText, state.color, state.text_size)]_vars

\* C3 witness: a draft was committed on top of an existing annotation while
\* redo held something.
PushWitness ==
    /\ last.op = "commit"
    /\ last.pre.nr /\ last.pre.na
    /\ state.redo = <<>>
    /\ Len(state.annotations) = 2

\* C5: undo moves the last annotation onto redo, redo moves the last of redo
\* back onto annotations, and either one on an empty source changes nothing.
UndoRedoMoveLast ==
    [][/\ last'.op = "undo" =>
            /\ Len(state.annotations) > 0
            /\ state' = [state EXCEPT
                           !.annotations = Front(state.annotations),
                           !.redo = Append(state.redo, Last(state.annotations))]
       /\ last'.op = "redo" =>
            /\ Len(state.redo) > 0
            /\ state' = [state EXCEPT
                           !.redo = Front(state.redo),
                           !.annotations = Append(state.annotations, Last(state.redo))]
       /\ (state.annotations = <<>> /\ ~crashed) => undo(state) = state
       /\ (state.redo = <<>> /\ ~crashed) => redo(state) = state]_vars

\* C5 witness: an undo took the second of two annotations.
UndoWitness ==
    /\ last.op = "undo"
    /\ Len(state.annotations) = 1 /\ Len(state.redo) = 1
    /\ state.annotations[1] # state.redo[1]

\* C6: the draft lives only in the draft slot: undo and redo leave it as it
\* is, a gesture begin or update that leaves a draft changes neither
\* annotations nor redo, and the only step that empties the draft slot
\* while annotations grows is the commit at gesture end.
DraftIsolated ==
    [][/\ last'.op \in {"undo", "redo"} => state'.draft = state.draft
       /\ (last'.op \in {"drag_begin", "drag_update"} /\ state'.draft # None) =>
            /\ state'.annotations = state.annotations
            /\ state'.redo = state.redo
       /\ (state.draft # None /\ state'.draft = None
           /\ Len(state'.annotations) > Len(state.annotations)) =>
            last'.op = "commit"
       /\ (state.draft # None /\ last'.op # "commit") =>
            Len(state'.annotations) + Len(state'.redo)
                <= Len(state.annotations) + Len(state.redo)]_vars

\* C6 witness: an undo moved an annotation to redo while a draft was in
\* progress, and the draft is still there.
DraftWitness ==
    /\ last.op = "undo"
    /\ state.draft # None
    /\ gesture
    /\ state.redo # <<>>


\* ------------------------------------------------------------------------
\* SpecLinear: the history operations called in the order
\* push(A); push(B); undo(); push(C); redo() on a fresh EditorState, for
\* every choice of A, B, C among annotations of each variant.  last.arg
\* holds <<A, B, C>> and last.op the call made last.

SampleAnnotations ==
    {Pen(<<Point(I2Q(1), I2Q(1)), Point(I2Q(2), I2Q(3))>>, "red", 4),
     RectAnn(Rect(I2Q(0), I2Q(0), I2Q(2), I2Q(1)), "blue", 2),
     Line(Point(I2Q(3), I2Q(0)), Point(I2Q(0), I2Q(2)), "red", 4, TRUE),
     Text(Point(I2Q(1), I2Q(2)), DefaultText, "red", 22),
     Blur(Rect(I2Q(2), I2Q(2), I2Q(0), I2Q(0)), BlurPixelSize)}

InitLinear ==
    /\ state = NewState
    /\ ui = NewUi
    /\ gesture = FALSE
    /\ crashed = FALSE
    /\ \E A \in SampleAnnotations, B \in SampleAnnotations, C \in SampleAnnotations :
          last = Event("lin_start", TRUE, <<A, B, C>>, NoHeld)

\* One call of the script: from position `from` to position `to`, taking
\* the editor state to `next`.
LinearCall(from, to, next) ==
    /\ last.op = from
    /\ state' = next
    /\ last' = [last EXCEPT !.op = to]
    /\ UNCHANGED <<ui, gesture, crashed>>

LinearPushA == LinearCall("lin_start", "lin_pushed_a", push_annotation(state, last.arg[1]))

LinearPushB == LinearCall("lin_pushed_a", "lin_pushed_b", push_annotation(state, last.arg[2]))

LinearUndo == LinearCall("lin_pushed_b", "lin_undone", undo(state))

LinearPushC == LinearCall("lin_undone", "lin_pushed_c", push_annotation(state, last.arg[3]))

LinearRedo == LinearCall("lin_pushed_c", "lin_redone", redo(state))

NextLinear ==
    \/ LinearPushA
    \/ LinearPushB
    \/ LinearUndo
    \/ LinearPushC
    \/ LinearRedo

SpecLinear == InitLinear /\ [][NextLinear]_vars

\* C4: after push(A); push(B); undo(); push(C) on an empty session, the
\* following redo() changes nothing and annotations is [A, C]: B is gone
\* for good.
UndoRedoLinear ==
    [][last'.op = "lin_redone" =>
        /\ state' = state
        /\ state'.annotations = <<last'.arg[1], last'.arg[3]>>
        /\ state'.redo = <<>>]_vars

\* The script has run to its end with three different annotations.
UndoRedoLinearWitness ==
    /\ last.op = "lin_redone"
    /\ Cardinality({last.arg[1], last.arg[2], last.arg[3]}) = 3
    /\ state.annotations = <<last.arg[1], last.arg[3]>>

\* ------------------------------------------------------------------------
\* SpecCrop: cropping.  The window has been drawn at 6 by 4 and the Crop
\* tool is active; the user loads one of two images (one shown at scale 1,
\* one at scale 4/3, so that view points fall between image pixels), places
\* text, undoes and redoes, and drags crop rectangles over an image that
\* has not been cropped yet.

CropImages == {Pixbuf(6, 4, "a", 0, 0), Pixbuf(4, 3, "b", 0, 0)}

CropPts == {Point(I2Q(1), I2Q(1)), Point(I2Q(3), I2Q(2)), Point(I2Q(5), I2Q(4))}

CropTextPt == Point(I2Q(2), I2Q(2))

CropTools == {"Text", "Crop"}

InitCrop ==
    /\ state = [tool_toggled(NewState, "Crop") EXCEPT !.viewport_width = 6,
                                                      !.viewport_height = 4]
    /\ ui = NewUi
    /\ gesture = FALSE
    /\ crashed = FALSE
    /\ last = Event("init", TRUE, None, NoHeld)

Uncropped ==
    IF state.background = None THEN TRUE ELSE state.background[1] \in CropImages

NextCrop ==
    \/ \E img \in CropImages : ApplyBackground(img)
    \/ \E p \in CropPts : Uncropped /\ DragBegin(p)
    \/ \E p \in CropPts : DragUpdate(p)
    \/ \E p \in CropPts, f \in SubpixbufFaults : DragEnd(p, f)
    \/ ClickPressed(CropTextPt)
    \/ \E t \in CropTools : ToolToggled(t)
    \/ Undo
    \/ Redo

SpecCrop == InitCrop /\ [][NextCrop]_vars

\* ------------------------------------------------------------------------
\* Properties of cropping (SpecCrop).  A gesture end with the Crop tool and
\* a crop rectangle calls apply_crop(state, crop_rect); the step is named
\* "drag_end_crop" and last.ok is what apply_crop returned.

\* The step is a gesture end that called apply_crop.
CropStep == last'.op = "drag_end_crop" /\ state.crop_rect # None

\* C7: when there is no background, or the normalized rectangle is less
\* than 1 wide or less than 1 high, apply_crop returns false and changes no
\* field of the editor state (the gesture end around it only forgets the
\* gesture's anchor, drag_start_view).
CropRefusal ==
    [][(/\ CropStep
        /\ \/ state.background = None
           \/ QLt(normalized(state.crop_rect[1]).w, One)
           \/ QLt(normalized(state.crop_rect[1]).h, One))
       => /\ ~last'.ok
          /\ ~crashed'
          /\ apply_crop(state, state.crop_rect[1], "abort").state = state
          /\ apply_crop(state, state.crop_rect[1], "null").state = state
          /\ state' = [state EXCEPT !.drag_start_view = None]]_vars

\* A crop of a rectangle less than 1 high, over a background that carries
\* an annotation, has just been refused.
CropRefusalWitness ==
    /\ last.op = "drag_end_crop" /\ ~last.ok /\ ~crashed
    /\ state.background # None
    /\ state.annotations # <<>>
    /\ state.crop_rect # None
    /\ QLt(normalized(state.crop_rect[1]).h, One)
    /\ ~QLt(normalized(state.crop_rect[1]).w, One)

\* C8: a successful apply_crop with clamped rectangle (x, y, w, h)
\* translates every annotation by (-x, -y), keeps their count and order,
\* and the new background is the w by h sub-image of the old one whose
\* origin is (x, y).
CropRebases ==
    [][(CropStep /\ last'.ok) =>
        LET bg == state.background[1]
            c == CropClamp(bg, state.crop_rect[1])
            new == state'.background[1]
        IN  /\ Len(state'.annotations) = Len(state.annotations)
            /\ \A i \in DOMAIN state.annotations :
                  state'.annotations[i] =
                      move_annotation(state.annotations[i], QNeg(c.x), QNeg(c.y))
            /\ new.src = bg.src
            /\ I2Q(new.width) = c.w /\ I2Q(new.height) = c.h
            /\ I2Q(new.ox - bg.ox) = c.x /\ I2Q(new.oy - bg.oy) = c.y]_vars

\* C9: a successful apply_crop leaves draft, crop_rect and selected absent
\* and leaves redo, tool, color, stroke_width and text_size as they were.
CropFrame ==
    [][(CropStep /\ last'.ok) =>
        /\ state'.draft = None
        /\ state'.crop_rect = None
        /\ state'.selected = None
        /\ state'.redo = state.redo
        /\ state'.tool = state.tool
        /\ state'.color = state.color
        /\ state'.stroke_width = state.stroke_width
        /\ state'.text_size = state.text_size]_vars

\* A crop away from the image's origin has just succeeded while the redo
\* stack and the annotation list were both occupied.
CropFrameWitness ==
    /\ last.op = "drag_end_crop" /\ last.ok /\ ~crashed
    /\ state.redo # <<>>
    /\ state.annotations # <<>>
    /\ state.background # None
    /\ state.background[1].ox > 0
    /\ state.crop_rect = None

\* ------------------------------------------------------------------------
\* SpecView: the view and the export.  The window has been drawn at 8 by
\* 6 and the Text tool is active; the user loads a 4 by 3 image, resizes
\* the window, moves the zoom slider, flips Fit, resets to 100%, places
\* text, undoes and exports (copy or save).  The drawing area is repainted
\* (queue_draw) before the next event arrives.

ViewImage == Pixbuf(4, 3, "a", 0, 0)

Viewports == {<<8, 6>>, <<4, 3>>}

ZoomValues == {I2Q(2)}

ViewPt == Point(I2Q(2), I2Q(2))

InitView ==
    /\ state = [tool_toggled(NewState, "Text") EXCEPT !.viewport_width = 8,
                                                      !.viewport_height = 6]
    /\ ui = NewUi
    /\ gesture = FALSE
    /\ crashed = FALSE
    /\ last = Event("init", TRUE, None, NoHeld)

ViewEvent ==
    \/ ApplyBackground(ViewImage)
    \/ \E z \in ZoomValues : ZoomChanged(z)
    \/ FitToggled
    \/ ZoomReset
    \/ ClickPressed(ViewPt)
    \/ Undo
    \/ \E f \in SubpixbufFaults : ExportClicked(f)

NextView ==
    \/ Fresh /\ ViewEvent
    \/ \E v \in Viewports, f \in SubpixbufFaults : DrawFunc(v[1], v[2], f)

SpecView == InitView /\ [][NextView]_vars

\* ------------------------------------------------------------------------
\* Properties of the export (SpecView).

\* The flattened image of st when the compositing runs under the identity
\* transform on a surface of the background's size.
FlatUnderIdentity(st, fault) ==
    LET c == Composite(st, IdentityTransform, fault)
    IN  IF c.aborted THEN [aborted |-> TRUE, image |-> None]
        ELSE [aborted |-> FALSE,
              image |-> Some([width |-> st.background[1].width,
                              height |-> st.background[1].height,
                              ops |-> c.ops])]

\* C10: render_to_pixbuf composites with the identity transform (scale 1,
\* offset (0, 0)) in every editor state, so its output is sized to the
\* background and is the same for states that differ only in
\* viewport_width, viewport_height, fit_to_window or zoom.
FlatIsIdentity ==
    \A f \in SubpixbufFaults :
        state.background # None =>
            /\ render_to_pixbuf(state, f) = FlatUnderIdentity(state, f)
            /\ \A v \in Viewports, z \in ZoomValues, fit \in BOOLEAN :
                  render_to_pixbuf([state EXCEPT !.viewport_width = v[1],
                                                 !.viewport_height = v[2],
                                                 !.zoom = z,
                                                 !.fit_to_window = fit], f)
                      = render_to_pixbuf(state, f)

\* ------------------------------------------------------------------------
\* SpecHit: hit_test applied to every annotation list of up to MaxHitLen
\* sample annotations and every point of a grid.  The list is
\* state.annotations, last.arg the point, and after the call last.arg is
\* <<point, result>>.

MaxHitLen == 3

HitAnnotations ==
    {RectAnn(Rect(I2Q(1), I2Q(1), I2Q(3), I2Q(3)), "red", 4),
     Blur(Rect(I2Q(3), I2Q(3), I2Q(1), I2Q(1)), BlurPixelSize),
     Line(Point(I2Q(2), I2Q(0)), Point(I2Q(4), I2Q(2)), "red", 4, FALSE),
     Pen(<<>>, "red", 4),
     Pen(<<Point(I2Q(0), I2Q(3)), Point(I2Q(1), I2Q(4)), Point(I2Q(0), I2Q(4))>>, "red", 4),
     Text(Point(I2Q(4), I2Q(24)), DefaultText, "red", 22)}

HitPoints == {Point(I2Q(x), I2Q(y)) : x \in 0..4, y \in {1, 3}}

InitHit ==
    /\ \E n \in 0..MaxHitLen : \E anns \in [1..n -> HitAnnotations] :
          state = [NewState EXCEPT !.annotations = anns]
    /\ ui = NewUi
    /\ gesture = FALSE
    /\ crashed = FALSE
    /\ \E p \in HitPoints : last = Event("hit_input", TRUE, p, NoHeld)

HitTest ==
    /\ last.op = "hit_input"
    /\ last' = Event("hit_test", TRUE,
                     <<last.arg, hit_test(state.annotations, last.arg)>>, NoHeld)
    /\ UNCHANGED <<state, ui, gesture, crashed>>

NextHit == HitTest

SpecHit == InitHit /\ [][NextHit]_vars

\* Whether p lies in the box spanned by the corners of r, edges included.
InBox(r, p) ==
    /\ QLe(QMin(r.x1, r.x2), p.x) /\ QLe(p.x, QMax(r.x1, r.x2))
    /\ QLe(QMin(r.y1, r.y2), p.y) /\ QLe(p.y, QMax(r.y1, r.y2))

\* The 0-based indices of the annotations whose bounding box contains p.
Containing(anns, p) ==
    {i \in 0..(Len(anns) - 1) :
        /\ annotation_bounds(anns[i + 1]) # None
        /\ InBox(annotation_bounds(anns[i + 1])[1], p)}

\* C11: hit_test returns the greatest index whose annotation's bounding box
\* contains the point, edges included on all four sides, and returns no
\* index exactly when no bounding box contains it.
HitTopmost ==
    last.op = "hit_test" =>
        LET c == Containing(state.annotations, last.arg[1])
            r == last.arg[2]
        IN  /\ (r = None) <=> (c = {})
            /\ r # None => r[1] \in c /\ \A j \in c : j <= r[1]

\* hit_test has answered B's index for A then B with the same bounding
\* box, at a point on the edge of both.
HitTopmostWitness ==
    /\ last.op = "hit_test"
    /\ Len(state.annotations) = 2
    /\ state.annotations[1] # state.annotations[2]
    /\ annotation_bounds(state.annotations[1]) # None
    /\ annotation_bounds(state.annotations[2]) # None
    /\ normalized(annotation_bounds(state.annotations[1])[1])
         = normalized(annotation_bounds(state.annotations[2])[1])
    /\ last.arg[1] = Point(I2Q(3), I2Q(1))
    /\ last.arg[2] = Some(1)

\* ------------------------------------------------------------------------
\* SpecDragUndo: one session played in order: the window is drawn, a 400 by
\* 300 image is loaded and drawn, a pen stroke of three points is drawn,
\* the Select tool is chosen, the stroke is grabbed at one of its points
\* and dragged by (10, -5) image pixels, then Undo, then Redo.  last.arg
\* holds the inputs: the stroke's first point p0, the stroke point grabbed
\* and the viewport; last.op is the event handled last.

ScenarioImage == Pixbuf(400, 300, "a", 0, 0)

ScenarioDrag == Point(I2Q(10), I2Q(-5))

ScenarioStarts ==
    {Point(I2Q(100), I2Q(100)), Point(I2Q(0), I2Q(20)),
     Point(I2Q(350), I2Q(280)), Point(Q(401, 2), Q(51, 4))}

ScenarioViewports == {<<400, 300>>, <<800, 600>>, <<200, 300>>}

\* The three points of the stroke that starts at p0.
ScenarioStroke(p0) ==
    <<p0, MovePoint(p0, I2Q(20), I2Q(10)), MovePoint(p0, I2Q(40), I2Q(0))>>

\* The view point at which the pointer is over image point p.
ViewOf(st, p) == Dev(view_transform(st), p)

InitDragUndo ==
    /\ state = NewState
    /\ ui = NewUi
    /\ gesture = FALSE
    /\ crashed = FALSE
    /\ \E p0 \in ScenarioStarts, g \in 1..3, v \in ScenarioViewports :
          last = Event("sc_start", TRUE, [p0 |-> p0, grab |-> g, viewport |-> v], NoHeld)

\* One event of the session: from position `from` to position `to`, the
\* handler's result r being [state, aborted].
ScenarioEvent(from, to, r) ==
    /\ last.op = from
    /\ ~crashed
    /\ state' = r.state
    /\ crashed' = r.aborted
    /\ last' = [last EXCEPT !.op = to]
    /\ UNCHANGED <<ui, gesture>>

Quiet(st) == [state |-> st, aborted |-> FALSE]

ScenarioLoad ==
    ScenarioEvent("sc_start", "sc_loaded",
        Quiet([apply_background(state, ScenarioImage) EXCEPT
                   !.viewport_width = last.arg.viewport[1],
                   !.viewport_height = last.arg.viewport[2]]))

ScenarioPenBegin ==
    LET v == ViewOf(state, ScenarioStroke(last.arg.p0)[1])
    IN  ScenarioEvent("sc_loaded", "sc_pen_begun", Quiet(drag_begin(state, v.x, v.y)))

\* The gesture offset that takes the pointer over image point p.
ScenarioOffset(p) ==
    LET v == ViewOf(state, p)
    IN  Point(QSub(v.x, state.drag_start_view[1].x), QSub(v.y, state.drag_start_view[1].y))

ScenarioPenUpdate ==
    LET o == ScenarioOffset(ScenarioStroke(last.arg.p0)[2])
    IN  ScenarioEvent("sc_pen_begun", "sc_pen_updated", drag_update(state, o.x, o.y))

ScenarioPenEnd ==
    LET o == ScenarioOffset(ScenarioStroke(last.arg.p0)[3])
        r == drag_end(state, o.x, o.y, "abort")
    IN  ScenarioEvent("sc_pen_updated", "sc_pen_ended",
                      [state |-> r.state, aborted |-> r.aborted])

ScenarioSelectTool ==
    ScenarioEvent("sc_pen_ended", "sc_select", Quiet(tool_toggled(state, "Select")))

ScenarioGrab ==
    LET v == ViewOf(state, ScenarioStroke(last.arg.p0)[last.arg.grab])
    IN  ScenarioEvent("sc_select", "sc_grabbed", Quiet(drag_begin(state, v.x, v.y)))

\* Where the pointer is over when the drag by ScenarioDrag is complete.
ScenarioTarget ==
    MovePoint(ScenarioStroke(last.arg.p0)[last.arg.grab], ScenarioDrag.x, ScenarioDrag.y)

ScenarioDragUpdate ==
    LET o == ScenarioOffset(ScenarioTarget)
    IN  ScenarioEvent("sc_grabbed", "sc_dragged", drag_update(state, o.x, o.y))

ScenarioDragEnd ==
    LET o == ScenarioOffset(ScenarioTarget)
        r == drag_end(state, o.x, o.y, "abort")
    IN  ScenarioEvent("sc_dragged", "sc_dropped",
                      [state |-> r.state, aborted |-> r.aborted])

ScenarioUndo == ScenarioEvent("sc_dropped", "sc_undone", Quiet(undo(state)))

ScenarioRedo == ScenarioEvent("sc_undone", "sc_redone", Quiet(redo(state)))

NextDragUndo ==
    \/ ScenarioLoad
    \/ ScenarioPenBegin
    \/ ScenarioPenUpdate
    \/ ScenarioPenEnd
    \/ ScenarioSelectTool
    \/ ScenarioGrab
    \/ ScenarioDragUpdate
    \/ ScenarioDragEnd
    \/ ScenarioUndo
    \/ ScenarioRedo

SpecDragUndo == InitDragUndo /\ [][NextDragUndo]_vars

\* The stroke of the session, where it lies after the drag.
ScenarioMoved ==
    Pen([i \in 1..3 |-> MovePoint(ScenarioStroke(last.arg.p0)[i],
                                  ScenarioDrag.x, ScenarioDrag.y)],
        NewState.color, NewState.stroke_width)

\* The history part of the scenario: the stroke is absent after the undo
\* and back at the dragged position after the redo.
ScenarioHistory ==
    /\ last.op = "sc_dropped" => state.annotations = <<ScenarioMoved>>
    /\ last.op = "sc_undone" => state.annotations = <<>>
    /\ last.op = "sc_redone" => state.annotations = <<ScenarioMoved>>

\* C12: load a 400 by 300 image, draw a pen stroke, switch to Select, drag
\* the stroke by (10, -5): one undo leaves the stroke absent, one redo
\* restores it at the dragged position, and every state along the sequence
\* can be rendered (draw does not abort on it).
ScenarioUndoRedoRenders ==
    /\ ScenarioHistory
    /\ ~crashed
    /\ \A f \in SubpixbufFaults : ~draw(state, f).aborted

\* ------------------------------------------------------------------------
\* SpecTransform: view_transform and map_to_image applied to every
\* combination of a background (none, 4 by 3, 800 by 600, or the image a
\* failed sub-image extraction leaves), a viewport (0 included), the fit
\* flag, a zoom and a point.  last.arg is the point; after a call it is
\* <<point, result>>.

TransformBackgrounds ==
    {None, Some(Pixbuf(4, 3, "a", 0, 0)), Some(Pixbuf(800, 600, "b", 0, 0)),
     Some(NullPixbuf)}

TransformWidths == {0, 1, 4, 10, 800}

TransformHeights == {0, 3, 6, 600}

TransformZooms == {Q(1, 100), Q(1, 4), One, I2Q(3)}

TransformPoints ==
    {Point(Zero, Zero), Point(I2Q(2), I2Q(3)), Point(Q(1, 2), I2Q(5)),
     Point(I2Q(-1), I2Q(2)), Point(I2Q(7), Q(-3, 2))}

InitTransform ==
    /\ \E bg \in TransformBackgrounds, w \in TransformWidths, h \in TransformHeights,
          fit \in BOOLEAN, z \in TransformZooms :
          state = [NewState EXCEPT !.background = bg,
                                   !.viewport_width = w,
                                   !.viewport_height = h,
                                   !.fit_to_window = fit,
                                   !.zoom = z]
    /\ ui = NewUi
    /\ gesture = FALSE
    /\ crashed = FALSE
    /\ \E p \in TransformPoints : last = Event("vt_input", TRUE, p, NoHeld)

\* One call on the input point, leaving <<point, result>>.
TransformCall(name, result) ==
    /\ last.op = "vt_input"
    /\ last' = Event(name, TRUE, <<last.arg, result>>, NoHeld)
    /\ UNCHANGED <<state, ui, gesture, crashed>>

ViewTransform == TransformCall("view_transform", view_transform(state))

\* map_to_image of the point taken as a view point.
MapToImage == TransformCall("map_to_image", map_to_image(state, last.arg.x, last.arg.y))

\* map_to_image of the view point at which the image point appears.
MapBack ==
    TransformCall("map_back",
                  map_to_image(state, ViewOf(state, last.arg).x, ViewOf(state, last.arg).y))

NextTransform ==
    \/ ViewTransform
    \/ MapToImage
    \/ MapBack

SpecTransform == InitTransform /\ [][NextTransform]_vars

\* (scale, offset_x, offset_y) by the stated formulas for a viewport of
\* vp_w by vp_h and an image of img_w by img_h.
StatedTransform(st, vp_w, vp_h, img_w, img_h) ==
    LET scale == IF st.fit_to_window
                 THEN QMax(QMin(Q(vp_w, img_w), Q(vp_h, img_h)), Q(1, 100))
                 ELSE QMax(st.zoom, Q(5, 100))
    IN  [scale |-> scale,
         offset_x |-> QMax(QDiv(QSub(I2Q(vp_w), QMul(I2Q(img_w), scale)), I2Q(2)), Zero),
         offset_y |-> QMax(QDiv(QSub(I2Q(vp_h), QMul(I2Q(img_h), scale)), I2Q(2)), Zero)]

\* C13 as stated: view_transform is (1, 0, 0) without a background, and
\* otherwise scale = max(min(viewport_w/img_w, viewport_h/img_h), 0.01)
\* under fit and max(zoom, 0.05) otherwise, each offset =
\* max((viewport_dim - img_dim*scale)/2, 0), for every viewport size, 0
\* included.
ViewTransformAsStated ==
    last.op = "view_transform" =>
        last.arg[2] =
            IF state.background = None THEN IdentityTransform
            ELSE StatedTransform(state, state.viewport_width, state.viewport_height,
                                 IMax(state.background[1].width, 1),
                                 IMax(state.background[1].height, 1))

\* C13, amended: the same formulas hold once each viewport dimension is
\* floored at 1 (as each image dimension is); scale > 0 and both offsets
\* are >= 0 for every viewport size and every zoom.
ViewTransformFloored ==
    last.op = "view_transform" =>
        /\ last.arg[2] =
              IF state.background = None THEN IdentityTransform
              ELSE StatedTransform(state, IMax(state.viewport_width, 1),
                                   IMax(state.viewport_height, 1),
                                   IMax(state.background[1].width, 1),
                                   IMax(state.background[1].height, 1))
        /\ QLt(Zero, last.arg[2].scale)
        /\ QLe(Zero, last.arg[2].offset_x)
        /\ QLe(Zero, last.arg[2].offset_y)

\* view_transform has been applied with an empty viewport and fit on an
\* 800 by 600 image: the scale is the floor 0.01.
ViewTransformWitness ==
    /\ last.op = "view_transform"
    /\ state.background = Some(Pixbuf(800, 600, "b", 0, 0))
    /\ state.viewport_width = 0 /\ state.viewport_height = 0
    /\ state.fit_to_window
    /\ last.arg[2].scale = Q(1, 100)

\* C14: map_to_image returns (view - offset)/scale floored at 0 on each
\* axis, so no coordinate of its result is negative; it inverts the view
\* transform: map_to_image(offset + scale*p) = p for every image point p
\* with p.x >= 0 and p.y >= 0; and for an 800 by 600 background in an 800
\* by 600 viewport under fit the transform is scale 1, offset (0, 0).
MapToImageInverts ==
    LET t == view_transform(state)
    IN  /\ last.op = "map_to_image" =>
              /\ last.arg[2].x = QMax(QDiv(QSub(last.arg[1].x, t.offset_x), t.scale), Zero)
              /\ last.arg[2].y = QMax(QDiv(QSub(last.arg[1].y, t.offset_y), t.scale), Zero)
              /\ QLe(Zero, last.arg[2].x) /\ QLe(Zero, last.arg[2].y)
        /\ (/\ last.op = "map_back"
            /\ QLe(Zero, last.arg[1].x) /\ QLe(Zero, last.arg[1].y))
              => last.arg[2] = last.arg[1]
        /\ (/\ state.background = Some(Pixbuf(800, 600, "b", 0, 0))
            /\ state.viewport_width = 800 /\ state.viewport_height = 600
            /\ state.fit_to_window)
              => t = IdentityTransform

\* An image point with a fractional coordinate has been mapped to the view
\* and back under a transform with scale 2 and a horizontal offset.
MapToImageWitness ==
    /\ last.op = "map_back"
    /\ last.arg[1] = Point(Q(1, 2), I2Q(5))
    /\ last.arg[2] = last.arg[1]
    /\ view_transform(state).scale = I2Q(2)
    /\ QLt(Zero, view_transform(state).offset_x)

\* ------------------------------------------------------------------------
\* SpecRect: Rect::normalized applied to every rect with corners on a small
\* grid, and to the same rect with its corners swapped.  last.arg is the
\* rect; after the call it is <<rect, normalized(rect), normalized(swapped)>>.

RectCoords == {I2Q(-2), Zero, Q(1, 2), I2Q(3), I2Q(10)}

InitRect ==
    /\ state = NewState
    /\ ui = NewUi
    /\ gesture = FALSE
    /\ crashed = FALSE
    /\ \E x1 \in RectCoords, y1 \in RectCoords, x2 \in RectCoords, y2 \in RectCoords :
          last = Event("rect_input", TRUE, Rect(x1, y1, x2, y2), NoHeld)

\* The rect with its two corners exchanged.
Swapped(r) == Rect(r.x2, r.y2, r.x1, r.y1)

Normalize ==
    /\ last.op = "rect_input"
    /\ last' = Event("normalized", TRUE,
                     <<last.arg, normalized(last.arg), normalized(Swapped(last.arg))>>,
                     NoHeld)
    /\ UNCHANGED <<state, ui, gesture, crashed>>

NextRect == Normalize

SpecRect == InitRect /\ [][NextRect]_vars

\* C15: for every rect the normalized width and height are >= 0, the
\* origin is the component-wise minimum of the two corners, and swapping
\* the corners gives the same normalized result.
NormalizedOrderFree ==
    last.op = "normalized" =>
        LET r == last.arg[1]
            n == last.arg[2]
        IN  /\ QLe(Zero, n.w) /\ QLe(Zero, n.h)
            /\ QLe(n.x, r.x1) /\ QLe(n.x, r.x2) /\ n.x \in {r.x1, r.x2}
            /\ QLe(n.y, r.y1) /\ QLe(n.y, r.y2) /\ n.y \in {r.y1, r.y2}
            /\ last.arg[3] = n

\* normalized({10,10,0,0}) has been computed and is what
\* normalized({0,0,10,10}) is: origin (0, 0), 10 by 10.
NormalizedWitness ==
    /\ last.op = "normalized"
    /\ last.arg[1] = Rect(I2Q(10), I2Q(10), Zero, Zero)
    /\ last.arg[2] = [x |-> Zero, y |-> Zero, w |-> I2Q(10), h |-> I2Q(10)]
    /\ last.arg[3] = last.arg[2]

\* ------------------------------------------------------------------------
\* SpecCapture: captures during an editing session.  The user clicks the
\* capture button, the spawned task sends its result at any later time,
\* the timer drains the channel; in between the user draws pen strokes and
\* undoes them.

NextCapture ==
    \/ CaptureClicked
    \/ \E kind \in ResultKinds : WorkerSend(kind)
    \/ ReceiverTick
    \/ DragBegin(SessionPt)
    \/ \E f \in SubpixbufFaults : DragEnd(SessionPt, f)
    \/ Undo

SpecCapture == Init /\ [][NextCapture]_vars

\* The queued results whose image gets loaded, by position.
Loaded(channel) == {i \in DOMAIN channel : channel[i].kind = "ok"}

\* C16: the capture task never writes the editor state: it only sends its
\* one result on the channel and is over; the background is replaced only
\* on the main thread, when the receiver takes an image result from the
\* channel, and through set_background (the session starts afresh);
\* results are applied in the order they were sent, so the background is
\* the image of the last one sent.
CaptureOwnership ==
    [][/\ last'.op = "worker_send" =>
             /\ state' = state
             /\ ui'.channel = Append(ui.channel, last'.arg)
             /\ last'.arg.id \in ui.tasks
             /\ ui'.tasks = ui.tasks \ {last'.arg.id}
       /\ last'.op = "capture" => state' = state
       /\ state'.background # state.background =>
             /\ last'.op = "receive"
             /\ Loaded(ui.channel) # {}
             /\ \E i \in Loaded(ui.channel) :
                   /\ \A j \in Loaded(ui.channel) : j <= i
                   /\ state'.background = Some(CaptureImage(ui.channel[i]))
             /\ state'.annotations = <<>> /\ state'.redo = <<>>
             /\ state'.draft = None /\ state'.selected = None
             /\ state'.crop_rect = None]_vars

\* The receiver has applied the second capture's image to a session that
\* held an annotation.
CaptureOwnershipWitness ==
    /\ last.op = "receive"
    /\ last.pre.na
    /\ Len(last.arg) = 1 /\ last.arg[1] = [id |-> 2, kind |-> "ok"]
    /\ state.background = Some(CaptureImage(last.arg[1]))
    /\ state.annotations = <<>>
    /\ ui.channel = <<>> /\ ui.tasks = {}

\* ------------------------------------------------------------------------
\* SpecClamp: the clamping shared by apply_crop and draw_pixelate, applied
\* to every rect with corners on a grid of non-negative coordinates (what
\* map_to_image can produce, beyond the image's edges included) over two
\* backgrounds.  last.arg is the rect; after the call it is <<rect, result>>
\* with result.clamp the clamped rectangle, result.crop whether apply_crop
\* aborts on the rect and result.blur whether draw_pixelate does.

ClampImages == {Pixbuf(4, 3, "a", 0, 0), Pixbuf(6, 4, "b", 0, 0)}

ClampCoords == {Zero, Q(1, 2), Q(3, 2), I2Q(2), I2Q(3), I2Q(4), I2Q(5)}

InitClamp ==
    /\ \E img \in ClampImages : state = [NewState EXCEPT !.background = Some(img)]
    /\ ui = NewUi
    /\ gesture = FALSE
    /\ crashed = FALSE
    /\ \E x1 \in ClampCoords, y1 \in ClampCoords, x2 \in ClampCoords, y2 \in ClampCoords :
          last = Event("clamp_input", TRUE, Rect(x1, y1, x2, y2), NoHeld)

Clamp ==
    /\ last.op = "clamp_input"
    /\ last' = Event("clamped", TRUE,
                     <<last.arg,
                       [clamp |-> CropClamp(state.background[1], last.arg),
                        crop |-> apply_crop(state, last.arg, "abort").aborted,
                        blur |-> draw_pixelate(IdentityTransform, last.arg, BlurPixelSize,
                                               state.background[1], "abort").aborted]>>,
                     NoHeld)
    /\ UNCHANGED <<state, ui, gesture, crashed>>

NextClamp == Clamp

SpecClamp == InitClamp /\ [][NextClamp]_vars

\* C17: for every rectangle that passes the width/height >= 1 check, the
\* clamped rectangle of apply_crop and draw_pixelate lies inside the
\* image (x >= 0, y >= 0, w >= 1, h >= 1, x + w <= image_w, y + h <=
\* image_h), and so does the rounded rectangle handed to the sub-image
\* extraction (which therefore never fails).
ClampInsideImage ==
    (/\ last.op = "clamped"
     /\ ~QLt(normalized(last.arg[1]).w, One)
     /\ ~QLt(normalized(last.arg[1]).h, One)) =>
        LET bg == state.background[1]
            c == last.arg[2].clamp
        IN  /\ QLe(Zero, c.x) /\ QLe(Zero, c.y)
            /\ QLe(One, c.w) /\ QLe(One, c.h)
            /\ QLe(QAdd(c.x, c.w), I2Q(bg.width))
            /\ QLe(QAdd(c.y, c.h), I2Q(bg.height))
            /\ QRound(c.x) >= 0 /\ QRound(c.y) >= 0
            /\ QRound(c.x) + QRound(c.w) <= bg.width
            /\ QRound(c.y) + QRound(c.h) <= bg.height
            /\ ~last.arg[2].crop
            /\ ~last.arg[2].blur

\* ------------------------------------------------------------------------
\* SpecSelect: moving annotations.  Two annotations have been drawn and the
\* Select tool is active (no background: the view is the image); the user
\* drags from and to four points, with any number of updates, and clicks
\* Undo and Redo at any time, also while a drag is in progress.  A new
\* drag starts only while every annotation is where it was drawn.

SelectSamples ==
    {Pen(<<Point(I2Q(2), I2Q(2)), Point(I2Q(3), I2Q(4)), Point(I2Q(4), I2Q(2))>>, "red", 4),
     RectAnn(Rect(I2Q(6), I2Q(4), I2Q(2), I2Q(1)), "red", 4),
     Line(Point(I2Q(5), I2Q(1)), Point(I2Q(7), I2Q(3)), "red", 4, TRUE)}

SelectPts ==
    {Point(I2Q(2), I2Q(2)), Point(I2Q(3), I2Q(4)), Point(I2Q(6), I2Q(2)), Point(Zero, Zero)}

InitSelect ==
    /\ \E a \in SelectSamples, b \in SelectSamples :
          state = tool_toggled(push_annotation(push_annotation(NewState, a), b), "Select")
    /\ ui = NewUi
    /\ gesture = FALSE
    /\ crashed = FALSE
    /\ last = Event("init", TRUE, None, NoHeld)

Unmoved ==
    /\ \A i \in DOMAIN state.annotations : state.annotations[i] \in SelectSamples
    /\ \A i \in DOMAIN state.redo : state.redo[i] \in SelectSamples

NextSelect ==
    \/ \E p \in SelectPts : Unmoved /\ DragBegin(p)
    \/ \E p \in SelectPts : DragUpdate(p)
    \/ \E p \in SelectPts, f \in SubpixbufFaults : DragEnd(p, f)
    \/ Undo
    \/ Redo

SpecSelect == InitSelect /\ [][NextSelect]_vars

\* A Select gesture begin on a hit selects the hit index and snapshots the
\* annotation.
SelectBeginSnapshots ==
    (last'.op = "drag_begin" /\ state.tool = "Select"
        /\ hit_test(state.annotations, map_to_image(state, last'.arg[1].x, last'.arg[1].y)) # None)
    => LET hit == hit_test(state.annotations,
                           map_to_image(state, last'.arg[1].x, last'.arg[1].y))
       IN  /\ state'.selected = hit
           /\ state'.selected_original = Some(state.annotations[hit[1] + 1])
           /\ state'.annotations = state.annotations

\* The step is a gesture update with an annotation selected and snapshot.
SelectUpdateStep ==
    /\ last'.op = "drag_update" /\ state.tool = "Select"
    /\ state.selected # None /\ state.selected_original # None
    /\ state.drag_start_view # None

\* After the update the selected annotation is the snapshot translated by
\* map_to_image(current) - map_to_image(anchor); nothing else moved.
SelectMovedFromSnapshot ==
    LET anchor == state.drag_start_view[1]
        a == map_to_image(state, anchor.x, anchor.y)
        c == map_to_image(state, last'.arg[1].x, last'.arg[1].y)
        index == state.selected[1]
    IN  /\ index < Len(state'.annotations)
        /\ Len(state'.annotations) = Len(state.annotations)
        /\ state'.annotations[index + 1] =
              move_annotation(state.selected_original[1], QSub(c.x, a.x), QSub(c.y, a.y))
        /\ \A i \in DOMAIN state.annotations :
              i # index + 1 => state'.annotations[i] = state.annotations[i]
        /\ state'.selected = state.selected
        /\ state'.selected_original = state.selected_original

\* A Select gesture end clears the snapshot and keeps the geometry.
SelectEndKeeps ==
    (last'.op = "drag_end" /\ state.tool = "Select") =>
        /\ state'.selected_original = None
        /\ state'.annotations = state.annotations
        /\ state'.selected = state.selected

\* The no-drift property on the updates that complete.
SelectNoDriftWhenCompleted ==
    [][/\ SelectBeginSnapshots
       /\ (SelectUpdateStep /\ ~crashed') => SelectMovedFromSnapshot
       /\ SelectEndKeeps]_vars

\* C18: a Select gesture begin on a hit sets selected to the hit index and
\* snapshots the annotation into selected_original; after every gesture
\* update annotations[selected] is the snapshot translated by
\* map_to_image(current) - map_to_image(anchor), whatever updates came
\* before; the gesture end clears selected_original and keeps the moved
\* geometry.
SelectNoDrift ==
    [][/\ SelectBeginSnapshots
       /\ SelectUpdateStep => (~crashed' /\ SelectMovedFromSnapshot)
       /\ SelectEndKeeps]_vars

\* ------------------------------------------------------------------------
\* SpecGesture: drawing gestures.  A text has been placed, a second one
\* placed and undone (so redo is occupied); with every tool the user then
\* presses, moves and releases at two view points (no background: the view
\* is the image) and switches tools, colours and stroke widths, also
\* while a gesture is in progress.
\* Gestures start only while the canvas and the redo stack are as at first.

GestureBase == Text(Point(I2Q(1), I2Q(1)), DefaultText, "red", 22)

GestureUndone == Text(Point(I2Q(5), I2Q(5)), DefaultText, "red", 22)

GesturePts == {Point(I2Q(2), I2Q(3)), Point(I2Q(4), I2Q(1))}

GestureColors == {"red", "blue"}

GestureWidths == {4, 8}

InitGesture ==
    /\ state = undo(push_annotation(push_annotation(tool_toggled(NewState, "Text"),
                                                    GestureBase), GestureUndone))
    /\ ui = NewUi
    /\ gesture = FALSE
    /\ crashed = FALSE
    /\ last = Event("init", TRUE, None, NoHeld)

OnBase == state.annotations = <<GestureBase>> /\ state.redo = <<GestureUndone>>

NextGesture ==
    \/ \E p \in GesturePts : OnBase /\ DragBegin(p)
    \/ \E p \in GesturePts : DragUpdate(p)
    \/ \E p \in GesturePts, f \in SubpixbufFaults : DragEnd(p, f)
    \/ \E t \in Tools : ToolToggled(t)
    \/ \E c \in GestureColors : ColorToggled(c)
    \/ \E w \in GestureWidths : SizeChanged(w)

SpecGesture == InitGesture /\ [][NextGesture]_vars

\* The step is a gesture end with a drawing tool and a draft present.
DraftEndStep ==
    /\ last'.op \in {"commit", "drag_end", "drag_end_crop"}
    /\ state.tool \in {"Pen", "Rect", "Line", "Arrow", "Blur"}
    /\ state.draft # None

\* The draft d finalized with the end point e.
Finalized(d, e) ==
    CASE d.kind = "Pen" -> [d EXCEPT !.points = d.points \o <<e>>]
      [] d.kind \in {"Rect", "Blur"} ->
           [d EXCEPT !.rect = Rect(d.rect.x1, d.rect.y1, e.x, e.y)]
      [] d.kind = "Line" -> [d EXCEPT !.end = e]

\* C19: a gesture end with Pen, Rect, Line, Arrow or Blur and a draft
\* present finalizes the draft with the end point (Pen appends it, Rect
\* and Blur set the second corner, Line and Arrow set end), appends it as
\* the last element of annotations, empties redo, and leaves draft and
\* drag_start_view absent.
GestureEndCommits ==
    [][DraftEndStep =>
        LET e == map_to_image(state, last'.at[1].x, last'.at[1].y)
            a == Finalized(state.draft[1], e)
        IN  /\ last'.op = "commit"
            /\ state'.annotations = state.annotations \o <<a>>
            /\ state'.redo = <<>>
            /\ state'.draft = None
            /\ state'.drag_start_view = None]_vars

\* An arrow drawn between two different points has just been committed on
\* top of the first text, emptying an occupied redo stack.
GestureEndWitness ==
    /\ last.op = "commit"
    /\ last.pre.nr /\ last.pre.na /\ last.pre.draft
    /\ Len(state.annotations) = 2
    /\ state.annotations[2].kind = "Line"
    /\ state.annotations[2].arrow
    /\ state.annotations[2].start # state.annotations[2].end
    /\ state.annotations[2].end = last.at[1]
    /\ state.redo = <<>>
    /\ state.draft = None

\* C20: a gesture begin at image point p records the view-space anchor
\* and initializes per tool: Pen a draft stroke with exactly the one point
\* p; Rect and Blur a draft with both corners at p; Line and Arrow a draft
\* with start = end = p, arrow true only for Arrow; Text no draft; Crop a
\* zero-extent crop_rect at p, with selected and draft cleared; the draft
\* takes the current color and stroke_width.
GestureBeginInitializes ==
    [][last'.op = "drag_begin" =>
        LET v == last'.arg[1]
            p == map_to_image(state, v.x, v.y)
            at_p == [x1 |-> p.x, y1 |-> p.y, x2 |-> p.x, y2 |-> p.y]
            d == state'.draft
        IN  /\ state'.drag_start_view = Some(v)
            /\ state.tool = "Pen" =>
                  d = Some([kind |-> "Pen", points |-> <<p>>,
                            color |-> state.color, width |-> state.stroke_width])
            /\ state.tool = "Rect" =>
                  d = Some([kind |-> "Rect", rect |-> at_p,
                            color |-> state.color, width |-> state.stroke_width])
            /\ state.tool = "Blur" =>
                  d # None /\ d[1].kind = "Blur" /\ d[1].rect = at_p
            /\ state.tool \in {"Line", "Arrow"} =>
                  d = Some([kind |-> "Line", start |-> p, end |-> p,
                            color |-> state.color, width |-> state.stroke_width,
                            arrow |-> (state.tool = "Arrow")])
            /\ state.tool = "Text" => d = None
            /\ state.tool = "Crop" =>
                  /\ state'.crop_rect = Some(at_p)
                  /\ state'.selected = None
                  /\ d = None
            /\ state'.tool = state.tool
            /\ state'.annotations = state.annotations
            /\ state'.redo = state.redo]_vars

\* An Arrow gesture has just begun after the colour and the stroke width
\* were changed: the draft is a zero-length blue arrow of width 8.
GestureBeginWitness ==
    /\ last.op = "drag_begin"
    /\ state.tool = "Arrow"
    /\ state.color = "blue" /\ state.stroke_width = 8
    /\ state.drag_start_view = last.arg
    /\ state.draft = Some(Line(last.arg[1], last.arg[1], "blue", 8, TRUE))

\* ------------------------------------------------------------------------
\* SpecCropEnd: the end of a crop gesture under every view.  The window has
\* been drawn at 6 by 4; the user loads a 6 by 4 image, places text, moves
\* the zoom slider to 2, flips Fit, and drags crop rectangles (also without
\* an image, and without moving) over an image that has not been cropped.

CropEndImage == Pixbuf(6, 4, "a", 0, 0)

CropEndZoom == I2Q(2)

InitCropEnd ==
    /\ state = [tool_toggled(NewState, "Crop") EXCEPT !.viewport_width = 6,
                                                      !.viewport_height = 4]
    /\ ui = NewUi
    /\ gesture = FALSE
    /\ crashed = FALSE
    /\ last = Event("init", TRUE, None, NoHeld)

NextCropEnd ==
    \/ ApplyBackground(CropEndImage)
    \/ \E p \in CropPts : Uncropped /\ DragBegin(p)
    \/ \E p \in CropPts : DragUpdate(p)
    \/ \E p \in CropPts, f \in SubpixbufFaults : DragEnd(p, f)
    \/ ClickPressed(CropTextPt)
    \/ \E t \in CropTools : ToolToggled(t)
    \/ ZoomChanged(CropEndZoom)
    \/ FitToggled

SpecCropEnd == InitCropEnd /\ [][NextCropEnd]_vars

\* C21: a gesture end with the Crop tool applies apply_crop to the current
\* crop_rect; when it returns true, fit_to_window = true and zoom = 1.0
\* afterwards; when it returns false, background, annotations,
\* fit_to_window and zoom are unchanged.
GestureEndCrops ==
    [][(gesture /\ ~gesture' /\ state.tool = "Crop" /\ state.crop_rect # None) =>
        \E f \in SubpixbufFaults :
            LET r == apply_crop([state EXCEPT !.drag_start_view = None],
                                state.crop_rect[1], f)
            IN  /\ last'.op = "drag_end_crop"
                /\ last'.ok = r.ok
                /\ crashed' = r.aborted
                /\ r.ok =>
                     /\ state' = [r.state EXCEPT !.fit_to_window = TRUE, !.zoom = One]
                     /\ ui'.fit_active
                /\ ~r.ok =>
                     /\ state'.background = state.background
                     /\ state'.annotations = state.annotations
                     /\ state'.fit_to_window = state.fit_to_window
                     /\ state'.zoom = state.zoom]_vars

\* A crop has just succeeded in a session whose zoom slider had been moved
\* to 2 (Fit off) and that carries an annotation: the view is back to Fit
\* at zoom 1 and the image is smaller.
GestureEndCropWitness ==
    /\ last.op = "drag_end_crop" /\ last.ok /\ ~crashed
    /\ state.fit_to_window /\ state.zoom = One /\ ui.fit_active
    /\ state.annotations # <<>>
    /\ state.background # None
    /\ state.background[1].width < CropEndImage.width
    /\ state.background[1].width > 0

\* ------------------------------------------------------------------------
\* SpecClick: clicks.  A 4 by 3 image is shown at scale 2 in a window drawn
\* at 8 by 6, the Text tool is active, one text has been placed and a
\* second one placed and undone.  A click arrives as a press of the click
\* gesture and a begin and an end of the drag gesture, in any order; the
\* user also changes the colour, presses the Text button and undoes.

ClickPts == {Point(I2Q(2), I2Q(2)), Point(I2Q(6), I2Q(4))}

InitClick ==
    /\ state =
         LET shown == apply_background(
                          [tool_toggled(NewState, "Text") EXCEPT
                              !.viewport_width = 8, !.viewport_height = 6],
                          ViewImage)
         IN  undo(click_pressed(click_pressed(shown, I2Q(2), I2Q(2)),
                                I2Q(4), I2Q(4)))
    /\ ui = NewUi
    /\ gesture = FALSE
    /\ crashed = FALSE
    /\ last = Event("init", TRUE, None, NoHeld)

NextClick ==
    \/ \E p \in ClickPts : ClickPressed(p)
    \/ \E p \in ClickPts : DragBegin(p)
    \/ \E p \in ClickPts, f \in SubpixbufFaults : DragEnd(p, f)
    \/ \E c \in GestureColors : ColorToggled(c)
    \/ ToolToggled("Text")
    \/ Undo

SpecClick == InitClick /\ [][NextClick]_vars

\* C22: a click while the Text tool is active commits exactly one Text
\* annotation at the mapped click point with the default text, the current
\* color and text_size, and clears redo; no draft exists at any point of
\* the press/release sequence, and the drag begin and drag end of the same
\* click add nothing.
TextClickCommits ==
    [][state.tool = "Text" =>
        /\ state.draft = None
        /\ state'.draft = None
        /\ last'.op = "click_text" =>
             LET p == last'.arg[1]
             IN  /\ state'.annotations =
                       state.annotations \o
                         << [kind |-> "Text", pos |-> map_to_image(state, p.x, p.y),
                             text |-> "Text", color |-> state.color,
                             size |-> state.text_size] >>
                 /\ state'.redo = <<>>
        /\ gesture' # gesture =>
             /\ state'.annotations = state.annotations
             /\ state'.redo = state.redo]_vars

\* A blue text has just been placed by a click at a view point that maps to
\* another image point, in a session whose redo stack was occupied.
TextClickWitness ==
    /\ last.op = "click_text"
    /\ last.pre.nr /\ last.pre.na
    /\ state.redo = <<>>
    /\ Len(state.annotations) = 2
    /\ state.annotations[2].kind = "Text"
    /\ state.annotations[2].color = "blue"
    /\ state.annotations[2].pos # last.arg[1]
    /\ state.draft = None

\* ------------------------------------------------------------------------
\* SpecGeometry: move_annotation and annotation_bounds applied to sample
\* annotations of every variant (pen strokes of 0, 1 and 3 points, corners
\* in either order, texts of 0, 1 and 4 characters).  The annotation is
\* state.annotations[1] and last.arg the two displacements <<d1, d2>>;
\* after a call last.arg is a record of the inputs and the results.

GeometrySamples ==
    {Pen(<<>>, "red", 4),
     Pen(<<Point(I2Q(2), I2Q(3))>>, "red", 4),
     Pen(<<Point(I2Q(2), I2Q(3)), Point(I2Q(0), I2Q(5)), Point(I2Q(4), I2Q(1))>>, "blue", 8),
     RectAnn(Rect(I2Q(3), I2Q(0), I2Q(1), I2Q(2)), "blue", 2),
     Line(Point(I2Q(3), I2Q(0)), Point(I2Q(0), I2Q(2)), "red", 4, TRUE),
     Text(Point(I2Q(1), I2Q(2)), DefaultText, "red", 22),
     Text(Point(I2Q(1), I2Q(2)), "", "red", 22),
     Text(Point(I2Q(2), I2Q(1)), "T", "blue", 1),
     Blur(Rect(I2Q(2), I2Q(2), I2Q(0), I2Q(0)), BlurPixelSize)}

GeometryDeltas ==
    {Point(Zero, Zero), Point(I2Q(1), I2Q(-2)), Point(Q(-3, 2), Q(1, 2))}

InitGeometry ==
    /\ \E a \in GeometrySamples : state = [NewState EXCEPT !.annotations = <<a>>]
    /\ ui = NewUi
    /\ gesture = FALSE
    /\ crashed = FALSE
    /\ \E d1 \in GeometryDeltas, d2 \in GeometryDeltas :
          last = Event("geo_input", TRUE, <<d1, d2>>, NoHeld)

\* move_annotation(a, d1), then move_annotation of the result by d2, and
\* move_annotation(a, d1 + d2).
MoveAnnotation ==
    /\ last.op = "geo_input"
    /\ LET a == state.annotations[1]
           d1 == last.arg[1]
           d2 == last.arg[2]
           once == move_annotation(a, d1.x, d1.y)
       IN  last' = Event("move_annotation", TRUE,
                         [a |-> a, d1 |-> d1, d2 |-> d2,
                          once |-> once,
                          twice |-> move_annotation(once, d2.x, d2.y),
                          sum |-> move_annotation(a, QAdd(d1.x, d2.x), QAdd(d1.y, d2.y))],
                         NoHeld)
    /\ UNCHANGED <<state, ui, gesture, crashed>>

\* annotation_bounds(a).
AnnotationBounds ==
    /\ last.op = "geo_input"
    /\ last' = Event("annotation_bounds", TRUE,
                     <<state.annotations[1], annotation_bounds(state.annotations[1])>>,
                     NoHeld)
    /\ UNCHANGED <<state, ui, gesture, crashed>>

NextGeometry ==
    \/ MoveAnnotation
    \/ AnnotationBounds

SpecGeometry == InitGeometry /\ [][NextGeometry]_vars

\* The geometry of annotation a displaced by (dx, dy), field by field.
Displaced(a, dx, dy) ==
    CASE a.kind = "Pen" ->
           [a EXCEPT !.points =
               [i \in DOMAIN a.points |->
                   [x |-> QAdd(a.points[i].x, dx), y |-> QAdd(a.points[i].y, dy)]]]
      [] a.kind \in {"Rect", "Blur"} ->
           [a EXCEPT !.rect = [x1 |-> QAdd(a.rect.x1, dx), y1 |-> QAdd(a.rect.y1, dy),
                               x2 |-> QAdd(a.rect.x2, dx), y2 |-> QAdd(a.rect.y2, dy)]]
      [] a.kind = "Line" ->
           [a EXCEPT !.start = [x |-> QAdd(a.start.x, dx), y |-> QAdd(a.start.y, dy)],
                     !.end = [x |-> QAdd(a.end.x, dx), y |-> QAdd(a.end.y, dy)]]
      [] a.kind = "Text" ->
           [a EXCEPT !.pos = [x |-> QAdd(a.pos.x, dx), y |-> QAdd(a.pos.y, dy)]]

\* C23: move_annotation(a, dx, dy) adds (dx, dy) to every geometry field of
\* the variant and changes nothing else; moves compose additively, a move
\* by (0, 0) is the identity, and the bounding box of the moved annotation
\* is the original bounding box translated by (dx, dy).
MoveIsTranslation ==
    last.op = "move_annotation" =>
        LET r == last.arg
            b == annotation_bounds(r.a)
            moved_b == annotation_bounds(r.once)
        IN  /\ r.once = Displaced(r.a, r.d1.x, r.d1.y)
            /\ r.twice = r.sum
            /\ (r.d1 = Point(Zero, Zero)) => r.once = r.a
            /\ (b = None) <=> (moved_b = None)
            /\ b # None =>
                 moved_b[1] = [x1 |-> QAdd(b[1].x1, r.d1.x), y1 |-> QAdd(b[1].y1, r.d1.y),
                               x2 |-> QAdd(b[1].x2, r.d1.x), y2 |-> QAdd(b[1].y2, r.d1.y)]

\* A three-point pen stroke has been moved by (1, -2) and then by
\* (-3/2, 1/2): every point is displaced, colour and width are kept.
MoveWitness ==
    /\ last.op = "move_annotation"
    /\ last.arg.a.kind = "Pen" /\ Len(last.arg.a.points) = 3
    /\ last.arg.d1 = Point(I2Q(1), I2Q(-2))
    /\ last.arg.d2 = Point(Q(-3, 2), Q(1, 2))
    /\ last.arg.once.points[3] = Point(I2Q(5), I2Q(-1))
    /\ last.arg.twice.points[3] = Point(Q(7, 2), Q(-1, 2))
    /\ last.arg.twice.color = "blue" /\ last.arg.twice.width = 8

\* Whether b is the bounding box stated for annotation a, the width of a
\* text's box being text_width.
StatedBounds(a, b, text_width) ==
    CASE a.kind = "Pen" ->
           IF Len(a.points) = 0
           THEN /\ b = None
                /\ \A p \in {a.points[i] : i \in DOMAIN a.points} \cup
                            {Point(Zero, Zero), Point(I2Q(2), I2Q(3))} :
                      hit_test(<<a>>, p) = None
           ELSE /\ b # None
                /\ \E i \in DOMAIN a.points : b[1].x1 = a.points[i].x
                /\ \E i \in DOMAIN a.points : b[1].y1 = a.points[i].y
                /\ \E i \in DOMAIN a.points : b[1].x2 = a.points[i].x
                /\ \E i \in DOMAIN a.points : b[1].y2 = a.points[i].y
                /\ \A i \in DOMAIN a.points :
                      /\ QLe(b[1].x1, a.points[i].x) /\ QLe(a.points[i].x, b[1].x2)
                      /\ QLe(b[1].y1, a.points[i].y) /\ QLe(a.points[i].y, b[1].y2)
      [] a.kind \in {"Rect", "Blur"} -> b = Some(a.rect)
      [] a.kind = "Line" ->
           b = Some([x1 |-> a.start.x, y1 |-> a.start.y,
                     x2 |-> a.end.x, y2 |-> a.end.y])
      [] a.kind = "Text" ->
           b = Some([x1 |-> a.pos.x,
                     y1 |-> QSub(a.pos.y, I2Q(a.size)),
                     x2 |-> QAdd(a.pos.x, text_width),
                     y2 |-> QAdd(a.pos.y, QMul(Q(2, 10), I2Q(a.size)))])

\* 0.6 * size * len(text).
StatedTextWidth(a) == QMul(Q(6, 10), I2Q(a.size * Len(a.text)))

\* C24 as stated: annotation_bounds per variant: Pen gives the min/max
\* extent of all points and no bounds for zero points (an empty pen stroke
\* is never hit); Rect and Blur give the rect itself; Line gives the rect
\* from start to end; Text gives {x1 = pos.x, y1 = pos.y - size,
\* x2 = pos.x + 0.6*size*len(text), y2 = pos.y + 0.2*size} for every text,
\* the empty string included.
BoundsAsStated ==
    last.op = "annotation_bounds" =>
        StatedBounds(last.arg[1], last.arg[2],
                     IF last.arg[1].kind = "Text" THEN StatedTextWidth(last.arg[1])
                     ELSE Zero)

\* C24, amended: the same, with the width of a text's box floored at 1:
\* x2 = pos.x + max(0.6*size*len(text), 1).
BoundsWithMinTextWidth ==
    last.op = "annotation_bounds" =>
        StatedBounds(last.arg[1], last.arg[2],
                     IF last.arg[1].kind = "Text"
                     THEN IF QLt(StatedTextWidth(last.arg[1]), One) THEN One
                          ELSE StatedTextWidth(last.arg[1])
                     ELSE Zero)

\* annotation_bounds has been applied to a text with the empty string: its
\* box is 1 wide.
BoundsWitness ==
    /\ last.op = "annotation_bounds"
    /\ last.arg[1].kind = "Text" /\ last.arg[1].text = ""
    /\ last.arg[2] # None
    /\ last.arg[2][1].x2 = QAdd(last.arg[1].pos.x, One)
    /\ last.arg[2][1].x1 = last.arg[1].pos.x

\* ------------------------------------------------------------------------
\* SpecPaint: frames.  The window has been drawn at 6 by 4; the user draws
\* with Pen, Arrow and Blur (clicks without movement and drags from one
\* point to another), selects, starts crop gestures, and loads a 6 by 4
\* image; the drawing area is repainted after every event, before the
\* next one arrives.

PaintImage == Pixbuf(6, 4, "a", 0, 0)

PaintAnchor == Point(I2Q(1), I2Q(1))

PaintPts == {PaintAnchor, Point(I2Q(3), I2Q(2))}

PaintTools == {"Pen", "Arrow", "Blur", "Select", "Crop"}

InitPaint ==
    /\ state = [NewState EXCEPT !.viewport_width = 6, !.viewport_height = 4]
    /\ ui = NewUi
    /\ gesture = FALSE
    /\ crashed = FALSE
    /\ last = Event("init", TRUE, None, NoHeld)

PaintEvent ==
    \/ ApplyBackground(PaintImage)
    \/ DragBegin(PaintAnchor)
    \/ \E p \in PaintPts, f \in SubpixbufFaults : DragEnd(p, f)
    \/ \E t \in PaintTools : ToolToggled(t)

NextPaint ==
    \/ Fresh /\ PaintEvent
    \/ \E f \in SubpixbufFaults : DrawFunc(6, 4, f)

SpecPaint == InitPaint /\ [][NextPaint]_vars

\* What painting the first k committed annotations of st issues, one
\* annotation after the other.
RECURSIVE PaintedUpTo(_, _, _)
PaintedUpTo(st, k, f) ==
    IF k = 0 THEN <<>>
    ELSE PaintedUpTo(st, k - 1, f)
           \o draw_annotation(view_transform(st), st.annotations[k], st.background, f).ops

\* C25: in every rendered frame the background is painted first, then
\* every committed annotation in increasing index order, then the draft if
\* any, then the crop-rectangle outline if any, then the selection
\* highlight if any.
PaintOrder ==
    [][(last'.op = "draw" /\ last'.ok) =>
        \E f \in SubpixbufFaults :
            LET st == state'
                frame == ui'.frame
                nb == IF st.background = None THEN 0 ELSE 1
                anns == PaintedUpTo(st, Len(st.annotations), f)
                draft == IF st.draft = None THEN <<>>
                         ELSE draw_annotation(view_transform(st), st.draft[1],
                                              st.background, f).ops
                nc == IF st.crop_rect = None THEN 0 ELSE 1
                ns == IF st.selected = None
                         \/ annotation_bounds(st.annotations[st.selected[1] + 1]) = None
                      THEN 0 ELSE 1
                na == nb + Len(anns)
                nd == na + Len(draft)
            IN  /\ Len(frame) = nd + nc + ns
                /\ nb = 1 => frame[1].op = "background"
                /\ SubSeq(frame, nb + 1, na) = anns
                /\ SubSeq(frame, na + 1, nd) = draft
                /\ nc = 1 => frame[nd + 1].op = "crop_outline"
                /\ ns = 1 => frame[nd + nc + 1].op = "selection"]_vars

\* A frame has just been painted over an image with two different committed
\* annotations, the first of them selected: background, first annotation,
\* second annotation, selection highlight.
PaintOrderWitness ==
    /\ last.op = "draw" /\ last.ok
    /\ state.background # None
    /\ Len(state.annotations) = 2
    /\ state.annotations[1] # state.annotations[2]
    /\ state.annotations[1].kind = "Line" /\ state.annotations[1].start # state.annotations[1].end
    /\ state.annotations[2].kind = "Pen"
    /\ state.selected # None
    /\ ui.frame[1].op = "background"
    /\ ui.frame[2].op = "line" /\ ui.frame[3].op = "arrow_head"
    /\ ui.frame[4].op = "polyline"
    /\ ui.frame[Len(ui.frame)].op = "selection"

\* How many operations named op a frame holds.
CountOps(frame, op) == Cardinality({i \in DOMAIN frame : frame[i].op = op})

\* How many of the annotations of st, the draft included, satisfy P.
CountAnns(st, P(_)) ==
    LET all == st.annotations \o st.draft
    IN  Cardinality({i \in DOMAIN all : P(all[i])})

\* C26: empty geometry is skipped without aborting the frame: a Pen
\* annotation with fewer than 2 points paints nothing, an arrow head is not
\* painted when |end - start| <= 0.1 (the line itself still is), a Blur
\* paints nothing when there is no background or its normalized width or
\* height is < 1, and all other annotations and overlays of the frame are
\* still painted.
EmptyGeometrySkipped ==
    [][last'.op = "draw" =>
        LET st == state'
            frame == ui'.frame
            Stroke(a) == a.kind = "Pen" /\ Len(a.points) >= 2
            Segment(a) == a.kind = "Line"
            Headed(a) ==
                /\ a.kind = "Line" /\ a.arrow
                /\ QLt(Q(1, 100),
                       QAdd(QMul(QSub(a.end.x, a.start.x), QSub(a.end.x, a.start.x)),
                            QMul(QSub(a.end.y, a.start.y), QSub(a.end.y, a.start.y))))
            Pixelated(a) ==
                /\ a.kind = "Blur" /\ st.background # None
                /\ QLe(One, QAbs(QSub(a.rect.x2, a.rect.x1)))
                /\ QLe(One, QAbs(QSub(a.rect.y2, a.rect.y1)))
        IN  /\ last'.ok /\ ~crashed'
            /\ CountOps(frame, "polyline") = CountAnns(st, Stroke)
            /\ CountOps(frame, "line") = CountAnns(st, Segment)
            /\ CountOps(frame, "arrow_head") = CountAnns(st, Headed)
            /\ CountOps(frame, "pixelate") = CountAnns(st, Pixelated)
            /\ CountOps(frame, "background") = (IF st.background = None THEN 0 ELSE 1)
            /\ CountOps(frame, "crop_outline") = (IF st.crop_rect = None THEN 0 ELSE 1)
            /\ CountOps(frame, "selection") = (IF st.selected = None THEN 0 ELSE 1)]_vars

\* A frame has just been painted over an image with a zero-length arrow, a
\* zero-extent blur and a crop rectangle: background, the arrow's line and
\* the crop outline, nothing else.
EmptyGeometryWitness ==
    /\ last.op = "draw" /\ last.ok /\ ~crashed
    /\ state.background # None
    /\ Len(state.annotations) = 2
    /\ state.annotations[1].kind = "Line" /\ state.annotations[1].arrow
    /\ state.annotations[1].start = state.annotations[1].end
    /\ state.annotations[2].kind = "Blur"
    /\ state.annotations[2].rect.x1 = state.annotations[2].rect.x2
    /\ state.crop_rect # None
    /\ Len(ui.frame) = 3
    /\ ui.frame[1].op = "background"
    /\ ui.frame[2].op = "line"
    /\ ui.frame[3].op = "crop_outline"

\* ------------------------------------------------------------------------
\* SpecPixelate: draw_pixelate under the identity transform, applied to
\* every rect with corners on a grid (beyond the image's edges included)
\* over a 30 by 3 image of one colour and a striped one, for three pixel
\* sizes (pixel_size is a field of the Blur annotation; the gesture begin
\* sets it to BlurPixelSize).  The background is state.background and
\* last.arg the pair <<rect, pixel_size>>; after the call last.arg is
\* <<rect, pixel_size, result>>.

PixelateImages == {Pixbuf(30, 3, "flat", 0, 0), Pixbuf(30, 3, "a", 0, 0)}

PixelateXs == {Zero, Q(1, 2), I2Q(5), I2Q(26), I2Q(30)}

PixelateYs == {Zero, I2Q(1), I2Q(3)}

PixelSizes == {1, 4, BlurPixelSize}

InitPixelate ==
    /\ \E img \in PixelateImages : state = set_background(NewState, img)
    /\ ui = NewUi
    /\ gesture = FALSE
    /\ crashed = FALSE
    /\ \E x1 \in PixelateXs, x2 \in PixelateXs, y1 \in PixelateYs, y2 \in PixelateYs,
          ps \in PixelSizes :
          last = Event("pixelate_input", TRUE, <<Rect(x1, y1, x2, y2), ps>>, NoHeld)

Pixelate ==
    /\ last.op = "pixelate_input"
    /\ \E f \in SubpixbufFaults :
          last' = Event("draw_pixelate", TRUE,
                        <<last.arg[1], last.arg[2],
                          draw_pixelate(IdentityTransform, last.arg[1], last.arg[2],
                                        state.background[1], f)>>,
                        NoHeld)
    /\ UNCHANGED <<state, ui, gesture, crashed>>

NextPixelate == Pixelate

SpecPixelate == InitPixelate /\ [][NextPixelate]_vars

\* The region of the image a rect of at least 1 by 1 is clamped to, in
\* whole pixels.
PixelRegion(bg, rect) ==
    LET n == normalized(rect)
        x == QMin(QMax(n.x, Zero), I2Q(bg.width))
        y == QMin(QMax(n.y, Zero), I2Q(bg.height))
        w == QMax(QMin(n.w, QSub(I2Q(bg.width), x)), One)
        h == QMax(QMin(n.h, QSub(I2Q(bg.height), y)), One)
    IN  [x |-> QRound(x), y |-> QRound(y), w |-> QRound(w), h |-> QRound(h),
         qw |-> w, qh |-> h]

\* What is stated of the pixelation of rect with pixel size ps, given the
\* result r of draw_pixelate.
PixelatedAsStated(bg, rect, ps, r) ==
    LET g == PixelRegion(bg, rect)
    IN  /\ ~r.aborted
        /\ Len(r.ops) = 1
        /\ r.ops[1].small_w = IMax(1, QRound(QDiv(g.qw, I2Q(ps))))
        /\ r.ops[1].small_h = IMax(1, QRound(QDiv(g.qh, I2Q(ps))))
        /\ r.ops[1].pixelated.width = g.w
        /\ r.ops[1].pixelated.height = g.h
        /\ DOMAIN r.ops[1].pixelated.px = (0 .. g.w - 1) \X (0 .. g.h - 1)
        /\ bg.src = "flat" =>
              \A p \in DOMAIN r.ops[1].pixelated.px : r.ops[1].pixelated.px[p] = 0

\* The rect is at least 1 by 1 once normalized: draw_pixelate goes on to
\* pixelate.
Pixelates(rect) ==
    QLe(One, QAbs(QSub(rect.x2, rect.x1))) /\ QLe(One, QAbs(QSub(rect.y2, rect.y1)))

\* The pixelation of every region whose rounded rectangle lies inside the
\* image is as stated.
PixelateInsideImage ==
    last.op = "draw_pixelate" =>
        LET bg == state.background[1]
            g == PixelRegion(bg, last.arg[1])
        IN  (Pixelates(last.arg[1]) /\ g.x + g.w <= bg.width /\ g.y + g.h <= bg.height)
                => PixelatedAsStated(bg, last.arg[1], last.arg[2], last.arg[3])

\* C27: pixelation of a region: the intermediate buffer is
\* max(1, round(w/pixel_size)) by max(1, round(h/pixel_size)), the result
\* has exactly the clamped region's pixel dimensions, and when every
\* source pixel of the region has the same color, every output pixel has
\* that color, for any pixel_size >= 1.
PixelateAsStated ==
    last.op = "draw_pixelate" =>
        (Pixelates(last.arg[1]) =>
            PixelatedAsStated(state.background[1], last.arg[1], last.arg[2], last.arg[3]))

\* ------------------------------------------------------------------------
\* Ownership of the cropped image (SpecCrop).

\* The pixels of two images that are the same storage: the same pixel
\* buffer, where their windows onto it overlap.
SharedPixels(a, b) ==
    IF a.src # b.src \/ a.src = "null" THEN {}
    ELSE ((a.ox .. a.ox + a.width - 1) \cap (b.ox .. b.ox + b.width - 1))
           \X ((a.oy .. a.oy + a.height - 1) \cap (b.oy .. b.oy + b.height - 1))

\* C28: after a successful apply_crop the new background is a fresh,
\* independently owned buffer: it shares no pixel storage with the
\* pre-crop image.
CropOwnsPixels ==
    [][(CropStep /\ last'.ok) =>
        SharedPixels(state'.background[1], state.background[1]) = {}]_vars

\* ------------------------------------------------------------------------
\* Tool and draft (SpecGesture).

\* The tool a draft is drawn with.
DraftTool(d) ==
    CASE d.kind = "Pen" -> "Pen"
      [] d.kind = "Rect" -> "Rect"
      [] d.kind = "Line" -> IF d.arrow THEN "Arrow" ELSE "Line"
      [] d.kind = "Blur" -> "Blur"
      [] OTHER -> "none"

ToolMatchesDraft ==
    /\ state.tool = "Select" => state.draft = None
    /\ state.crop_rect # None => state.tool = "Crop"
    /\ state.draft # None => DraftTool(state.draft[1]) = state.tool

\* C29: in every reachable state, tool = Select implies draft is absent,
\* crop_rect is present only when tool = Crop, and a present draft's
\* variant matches the active tool (Line with arrow = false under Line,
\* with arrow = true under Arrow); changing the tool clears draft,
\* crop_rect, selected and selected_original.
ToolOwnsDraft ==
    /\ []ToolMatchesDraft
    /\ [][state'.tool # state.tool =>
            /\ state'.draft = None
            /\ state'.crop_rect = None
            /\ state'.selected = None
            /\ state'.selected_original = None]_vars

\* The tool has just been changed to Select in the middle of a gesture:
\* nothing of the gesture is left but its anchor.
ToolOwnsDraftWitness ==
    /\ last.op = "tool" /\ last.arg = Some("Select")
    /\ gesture
    /\ state.tool = "Select"
    /\ state.drag_start_view # None
    /\ state.draft = None /\ state.crop_rect = None
    /\ state.selected = None /\ state.selected_original = None

\* ------------------------------------------------------------------------
\* Draft and gesture (Spec).

DraftWithinGesture == state.drag_start_view = None => state.draft = None

\* C30: no draft exists outside a gesture: in every reachable state
\* drag_start_view absent implies draft absent, so after any gesture end
\* (whatever the tool, and whatever tool changes happened mid-gesture) no
\* draft is left behind.
NoDraftOutsideGesture ==
    /\ []DraftWithinGesture
    /\ [][(gesture /\ ~gesture') =>
            /\ state'.drag_start_view = None
            /\ state'.draft = None]_vars

\* An image has just been loaded in the middle of a pen gesture: the draft
\* went with the gesture's anchor.
NoDraftWitness ==
    /\ last.op = "apply_background"
    /\ last.pre.draft
    /\ gesture
    /\ state.tool = "Pen"
    /\ state.drag_start_view = None
    /\ state.draft = None

\* ------------------------------------------------------------------------
\* A gesture interrupted by a new background (Spec).

\* The gesture is still in progress for GTK, yet its anchor is gone: the
\* background was replaced since drag_begin.
Interrupted == gesture /\ state.drag_start_view = None

\* What drag_end returns when it changes nothing.
EndsQuietly(st) ==
    [state |-> st, aborted |-> FALSE, did_crop |-> FALSE,
     crop_tried |-> FALSE, pushed |-> None]

\* In an interrupted gesture every update and every end is a no-op.
InterruptedGestureInert ==
    Interrupted =>
        \A f \in SubpixbufFaults :
            /\ drag_update(state, OffsetTo(SessionPt).x, OffsetTo(SessionPt).y)
                 = [state |-> state, aborted |-> FALSE]
            /\ drag_end(state, OffsetTo(SessionPt).x, OffsetTo(SessionPt).y, f)
                 = EndsQuietly(state)

\* C31: when the background is replaced while a gesture is in progress,
\* the gesture's anchor is dropped with the old session (annotations
\* empty, no draft, no crop_rect), and from then on the update and end
\* events of that gesture change nothing: the end leaves the state and the
\* widgets as they were, applies no crop, commits nothing and does not
\* abort.
ReplacedBackgroundEndsGesture ==
    /\ []InterruptedGestureInert
    /\ [][(gesture /\ last'.op = "apply_background" /\ last' # last) =>
            /\ Interrupted'
            /\ state'.annotations = <<>>
            /\ state'.draft = None
            /\ state'.crop_rect = None]_vars
    /\ [][(Interrupted /\ ~gesture') =>
            /\ state' = state
            /\ ui' = ui
            /\ ~crashed'
            /\ last'.op = "drag_end"]_vars

\* An image has just been loaded in the middle of a Crop gesture: the crop
\* rectangle went with the old session, and the update and end events
\* still to come find no anchor.
ReplacedBackgroundWitness ==
    /\ Interrupted
    /\ last.op = "apply_background"
    /\ last.pre.crop
    /\ state.tool = "Crop"
    /\ state.annotations = <<>>
    /\ state.crop_rect = None

\* ------------------------------------------------------------------------
\* Undo and redo as inverses (Spec).

Reverse(s) == [i \in 1 .. Len(s) |-> s[Len(s) + 1 - i]]

\* Every annotation the session remembers, in the order it was committed.
History(st) == st.annotations \o Reverse(st.redo)

\* From the current state, undo then redo and redo then undo come back to
\* the same annotations and redo.
UndoRedoRoundTrip ==
    /\ Len(state.annotations) > 0 =>
         LET back == redo(undo(state))
         IN  /\ back.annotations = state.annotations
             /\ back.redo = state.redo
    /\ Len(state.redo) > 0 =>
         LET back == undo(redo(state))
         IN  /\ back.annotations = state.annotations
             /\ back.redo = state.redo

\* C32: undo and redo are mutual inverses and conserve history: with
\* non-empty annotations undo followed by redo restores annotations and
\* redo exactly, with non-empty redo so does redo followed by undo, and
\* every undo and every redo leaves annotations followed by the reverse of
\* redo as it was.
UndoRedoInverse ==
    /\ []UndoRedoRoundTrip
    /\ [][(last' # last /\ last'.op \in {"undo", "redo"}) =>
            /\ History(state') = History(state)
            /\ Len(History(state')) > 0]_vars

\* A redo has just brought back one of two undone annotations: both
\* stacks are non-empty.
UndoRedoInverseWitness ==
    /\ last.op = "redo"
    /\ Len(state.annotations) = 1
    /\ Len(state.redo) = 1
    /\ state.annotations[1] # state.redo[1]

\* ------------------------------------------------------------------------
\* SpecMove: selecting and moving.  As SpecSelect (two annotations drawn,
\* the Select tool active, Undo and Redo at any time), and the user also
\* clicks; a new drag or a click happens only while every annotation is
\* where it was drawn.

MovePts == {Point(I2Q(2), I2Q(2)), Point(I2Q(6), I2Q(2)), Point(Zero, Zero)}

NextMove ==
    \/ \E p \in MovePts : Unmoved /\ DragBegin(p)
    \/ \E p \in MovePts : DragUpdate(p)
    \/ \E p \in MovePts, f \in SubpixbufFaults : DragEnd(p, f)
    \/ \E p \in MovePts : Unmoved /\ ClickPressed(p)
    \/ Undo
    \/ Redo

SpecMove == InitSelect /\ [][NextMove]_vars

\* Annotation b is annotation a but for its geometry: same variant, same
\* style.
SameButGeometry(a, b) ==
    /\ b.kind = a.kind
    /\ CASE a.kind = "Pen" -> b.color = a.color /\ b.width = a.width
         [] a.kind = "Rect" -> b.color = a.color /\ b.width = a.width
         [] a.kind = "Line" ->
              b.color = a.color /\ b.width = a.width /\ b.arrow = a.arrow
         [] a.kind = "Text" ->
              b.text = a.text /\ b.color = a.color /\ b.size = a.size
         [] a.kind = "Blur" -> b.pixel_size = a.pixel_size

\* The step is an event of a Select gesture or a Select click.
SelectStep ==
    /\ state.tool = "Select"
    /\ last' # last
    /\ last'.op \in {"drag_begin", "drag_update", "drag_end", "click"}

\* C33: a Select gesture (begin, updates, end) and a Select click change at
\* most the geometry of the one selected annotation: the length and order
\* of annotations, every other annotation, the variant and style of the
\* selected one and redo are unchanged, and so is the tool.
SelectMovesOnlySelected ==
    [][SelectStep =>
         /\ Len(state'.annotations) = Len(state.annotations)
         /\ state'.redo = state.redo
         /\ state'.tool = state.tool
         /\ \A i \in DOMAIN state.annotations :
               \/ state'.annotations[i] = state.annotations[i]
               \/ /\ state'.selected = Some(i - 1)
                  /\ state.selected = Some(i - 1)
                  /\ SameButGeometry(state.annotations[i], state'.annotations[i])]_vars

\* A gesture update has just moved the selected annotation away from where
\* it was drawn, while the other annotation sits on the redo stack.
SelectMovesWitness ==
    /\ last.op = "drag_update"
    /\ state.tool = "Select"
    /\ state.selected = Some(0)
    /\ Len(state.annotations) = 1
    /\ Len(state.redo) = 1
    /\ state.annotations[1] \notin SelectSamples
    /\ state.selected_original # None
    /\ SameButGeometry(state.selected_original[1], state.annotations[1])

\* ------------------------------------------------------------------------
\* SpecCount: whole gestures.  A 6 by 4 image is shown at scale 1 with one
\* text placed on it; with every tool the user presses, moves and releases
\* at two view points.  Tools are switched only between gestures, and a
\* gesture begins only on the uncropped image holding exactly one
\* annotation.

CountImage == Pixbuf(6, 4, "a", 0, 0)

CountTextPt == Point(I2Q(1), I2Q(3))

CountPts == {Point(I2Q(1), I2Q(1)), Point(I2Q(4), I2Q(3))}

InitCount ==
    /\ LET sized == [NewState EXCEPT !.viewport_width = 6, !.viewport_height = 4]
           shown == apply_background(sized, CountImage)
           placed == click_pressed(tool_toggled(shown, "Text"),
                                   CountTextPt.x, CountTextPt.y)
       IN  state = tool_toggled(placed, "Pen")
    /\ ui = NewUi
    /\ gesture = FALSE
    /\ crashed = FALSE
    /\ last = Event("init", TRUE, None, NoHeld)

CountReady ==
    /\ Len(state.annotations) = 1
    /\ state.background = Some(CountImage)

NextCount ==
    \/ \E p \in CountPts : CountReady /\ DragBegin(p)
    \/ \E p \in CountPts : DragUpdate(p)
    \/ \E p \in CountPts, f \in SubpixbufFaults : DragEnd(p, f)
    \/ \E t \in Tools : ~gesture /\ CountReady /\ ToolToggled(t)

SpecCount == InitCount /\ [][NextCount]_vars

DraftTools == {"Pen", "Rect", "Line", "Arrow", "Blur"}

\* While a gesture is in progress it started from exactly one annotation,
\* and no update has changed that.
CountHeldInGesture == gesture => Len(state.annotations) = 1

\* C34: a completed gesture (begin, any updates, end, the tool and the
\* background untouched in between) with Pen, Rect, Line, Arrow or Blur
\* adds exactly one annotation, a gesture with Select or Crop adds none,
\* and no begin and no update changes len(annotations) with any tool.
GestureCommitsOne ==
    /\ []CountHeldInGesture
    /\ [][gesture' =>
            Len(state'.annotations) = Len(state.annotations)]_vars
    /\ [][(gesture /\ ~gesture' /\ ~crashed') =>
            Len(state'.annotations) =
                IF state.tool \in DraftTools THEN 2
                ELSE IF state.tool \in {"Select", "Crop"} THEN 1
                ELSE Len(state.annotations)]_vars

\* A Blur gesture that ended where it began has just committed the second
\* annotation.
GestureCommitsOneWitness ==
    /\ last.op = "commit"
    /\ last.at = Some(Point(I2Q(1), I2Q(1)))
    /\ ~gesture
    /\ state.tool = "Blur"
    /\ Len(state.annotations) = 2
    /\ state.annotations[2].kind = "Blur"
    /\ state.annotations[2].rect = Rect(I2Q(1), I2Q(1), I2Q(1), I2Q(1))

\* ------------------------------------------------------------------------
\* SpecCaptureLive: SpecCapture with the timer that keeps firing.  The glib
\* main loop runs the 100 ms timeout closure again and again, so a queued
\* result does not wait for ever.

SpecCaptureLive == SpecCapture /\ WF_vars(ReceiverTick)

\* The capture requests under way: tasks still running and results queued.
InFlight == Cardinality(ui.tasks) + Len(ui.channel)

\* At most one request is under way, and the button is insensitive exactly
\* while one is.
OneInFlight ==
    /\ InFlight <= 1
    /\ ui.capture_sensitive <=> InFlight = 0

\* C35: at most one capture request is in flight at any time: a click
\* disables the capture button until the receiver loop has received that
\* request's result, and every result the worker sent is eventually
\* received and re-enables the button, whatever the result.
CaptureOneAtATime ==
    /\ []OneInFlight
    /\ [][(last' # last /\ last'.op = "capture") =>
            ~ui'.capture_sensitive /\ InFlight' = 1]_vars
    /\ \A kind \in ResultKinds :
          (ui.channel # <<>> /\ ui.channel[1].kind = kind)
              ~> (ui.channel = <<>> /\ ui.capture_sensitive
                    /\ last.op = "receive" /\ last.arg[1].kind = kind)

\* The receiver took the failed result of the first capture and made the
\* button sensitive again; the second capture is now under way.
CaptureOneAtATimeWitness ==
    /\ ui.captures = 2
    /\ ui.tasks = {2}
    /\ ui.channel = <<>>
    /\ ~ui.capture_sensitive
    /\ last.op = "capture"
    /\ state.background = None

\* ------------------------------------------------------------------------
\* Open, paste and copy.  The file dialog and the clipboard answer in a
\* callback on the main thread: res is what they answered.  Each of these
\* handlers reports in the status bar, so each leaves its name and its
\* outcome in last even when nothing else changes; last.arg is what
\* happened.

OpenResults == {"ok", "unreadable", "nopath", "cancelled"}

PasteResults == {"ok", "no_pixbuf", "no_image", "error", "no_display"}

\* The image an opened file holds / the image on the clipboard.
OpenImage == Pixbuf(4, 3, "o", 0, 0)

PasteImage == Pixbuf(4, 3, "p", 0, 0)

\* A variant of the open callback that empties the canvas before it knows
\* whether the file loads.
open_result_cleared(st, res) ==
    IF res = "ok" THEN apply_background(st, OpenImage)
    ELSE IF res = "unreadable" THEN [st EXCEPT !.annotations = <<>>, !.redo = <<>>]
    ELSE st

\* The callback of file_dialog.open in open_button.connect_clicked.
open_result(st, res) ==
    IF res = "ok" THEN apply_background(st, OpenImage) ELSE st

\* paste_button.connect_clicked and the callback of read_texture_async.
paste_result(st, res) ==
    IF res = "ok" THEN apply_background(st, PasteImage) ELSE st

OpenFinished(res) ==
    /\ ~crashed
    /\ LET w1 == World(open_result(state, res), ui)
           w == IF res = "ok" THEN reset_view_widgets(w1) ELSE w1
       IN  /\ state' = w.st
           /\ ui' = Widgets(ui, w)
           /\ crashed' = w.reentered
    /\ UNCHANGED gesture
    /\ last' = Event("open", res = "ok", Some(res), NoHeld)

PasteFinished(res) ==
    /\ ~crashed
    /\ LET w1 == World(paste_result(state, res), ui)
           w == IF res = "ok" THEN reset_view_widgets(w1) ELSE w1
       IN  /\ state' = w.st
           /\ ui' = Widgets(ui, w)
           /\ crashed' = w.reentered
    /\ UNCHANGED gesture
    /\ last' = Event("paste", res = "ok", Some(res), NoHeld)

\* copy_button.connect_clicked: "Nothing to copy yet." without an image to
\* export, else the flattened image goes to the clipboard.
CopyClicked(fault) ==
    /\ ~crashed
    /\ LET r == render_to_pixbuf(state, fault)
       IN  /\ crashed' = r.aborted
           /\ UNCHANGED <<state, ui, gesture>>
           /\ last' = Event("copy", r.image # None,
                            IF r.aborted THEN None
                            ELSE IF r.image = None THEN Some("Nothing to copy yet.")
                            ELSE Some("Copied to clipboard."),
                            NoHeld)

\* ------------------------------------------------------------------------
\* SpecFail: operations that fail.  The window has been drawn at 8 by 6,
\* two texts have been placed and the second one undone; the user selects
\* the text, starts pen strokes and crop rectangles, places one more text
\* on an empty canvas, captures once, opens files, pastes and copies, and
\* each of these external operations may fail in any of its ways.

FailPt == Point(I2Q(2), I2Q(2))

FailTools == {"Text", "Select", "Pen", "Crop"}

InitFail ==
    /\ LET sized == [tool_toggled(NewState, "Text") EXCEPT !.viewport_width = 8,
                                                           !.viewport_height = 6]
       IN  state = undo(click_pressed(click_pressed(sized, FailPt.x, FailPt.y),
                                      I2Q(4), I2Q(4)))
    /\ ui = NewUi
    /\ gesture = FALSE
    /\ crashed = FALSE
    /\ last = Event("init", TRUE, None, NoHeld)

NextFail ==
    \/ \E res \in OpenResults : OpenFinished(res)
    \/ \E res \in PasteResults : PasteFinished(res)
    \/ \E f \in SubpixbufFaults : CopyClicked(f)
    \/ ui.captures = 0 /\ CaptureClicked
    \/ \E kind \in ResultKinds : WorkerSend(kind)
    \/ ReceiverTick
    \/ state.annotations = <<>> /\ ClickPressed(FailPt)
    \/ DragBegin(FailPt)
    \/ \E f \in SubpixbufFaults : DragEnd(FailPt, f)
    \/ \E t \in FailTools : ToolToggled(t)

SpecFail == InitFail /\ [][NextFail]_vars

\* The step is an external operation that failed: a run of the receiver
\* that took no image, an open or a paste without an image, a copy with
\* nothing to export.
FailedStep ==
    \/ /\ last'.op = "receive" /\ last' # last
       /\ \A i \in DOMAIN last'.arg : last'.arg[i].kind # "ok"
    \/ last'.op \in {"open", "paste"} /\ ~last'.ok
    \/ last'.op = "copy" /\ state.background = None

\* C36: a failed external operation leaves the editor state unchanged:
\* after a capture that failed, a captured URI without a local path or
\* whose image does not load, an open or a paste that failed or was
\* cancelled, and a copy without a background (nothing to export), the
\* background, annotations, redo, draft, selection and crop_rect are
\* what they were; the copy without a background exports nothing.
FailureKeepsState ==
    [][FailedStep =>
         /\ state'.background = state.background
         /\ state'.annotations = state.annotations
         /\ state'.redo = state.redo
         /\ state'.draft = state.draft
         /\ state'.selected = state.selected
         /\ state'.selected_original = state.selected_original
         /\ state'.crop_rect = state.crop_rect
         /\ ~crashed'
         /\ last'.op = "copy" => last'.arg = Some("Nothing to copy yet.")]_vars

\* An open has just failed on an unreadable file while a crop rectangle
\* was being dragged, with one text placed and one undone.
FailureKeepsWitness ==
    /\ last.op = "open" /\ last.arg = Some("unreadable")
    /\ Len(state.annotations) = 1
    /\ Len(state.redo) = 1
    /\ state.crop_rect # None
    /\ gesture

\* ------------------------------------------------------------------------
\* SpecWidgets: the Fit toggle, the zoom slider and the handlers that set
\* them.  The window has been drawn at 8 by 6; the user loads a 4 by 3
\* image (fit scale 2), flips Fit, moves the slider, clicks 100%,
\* ctrl-scrolls up and down, and crops once.

WidgetImage == Pixbuf(4, 3, "a", 0, 0)

WidgetZooms == {Q(1, 2)}

WidgetPts == {Point(I2Q(0), I2Q(0)), Point(I2Q(4), I2Q(4))}

ScrollSteps == {-1, 1}

InitWidgets ==
    /\ state = [tool_toggled(NewState, "Crop") EXCEPT !.viewport_width = 8,
                                                      !.viewport_height = 6]
    /\ ui = NewUi
    /\ gesture = FALSE
    /\ crashed = FALSE
    /\ last = Event("init", TRUE, None, NoHeld)

WidgetUncropped ==
    IF state.background = None THEN TRUE ELSE state.background[1] = WidgetImage

NextWidgets ==
    \/ ApplyBackground(WidgetImage)
    \/ \E z \in WidgetZooms : ZoomChanged(z)
    \/ FitToggled
    \/ ZoomReset
    \/ \E dy \in ScrollSteps : ~gesture /\ Scroll(dy)
    \/ \E p \in WidgetPts : WidgetUncropped /\ DragBegin(p)
    \/ \E p \in WidgetPts : DragUpdate(p)
    \/ \E p \in WidgetPts, f \in SubpixbufFaults : DragEnd(p, f)

SpecWidgets == InitWidgets /\ [][NextWidgets]_vars

\* C37: no event handler re-enters a handler that borrows the editor state
\* while a mutable borrow is held: every programmatic change of the Fit
\* toggle or of the zoom adjustment made inside a handler happens with its
\* guard flag (fit_updating, zoom_updating) up, so that the handler it
\* emits returns before borrowing, and both flags are down again when each
\* handler has finished.
HandlersGuarded ==
    /\ ~ui.reentered
    /\ ~ui.unbracketed
    /\ ~ui.fit_updating
    /\ ~ui.zoom_updating

\* Fit has just been switched on: the handler, holding the state mutably,
\* moved the slider from 1 to the fit scale 2, and the zoom handler this
\* emitted returned at its guard (state.zoom is still 1).
HandlersGuardedWitness ==
    /\ last.op = "fit"
    /\ state.fit_to_window /\ ui.fit_active
    /\ ui.zoom_value = I2Q(2)
    /\ state.zoom = One
    /\ ~crashed

\* C38: after every event handler the Fit toggle's active state equals
\* state.fit_to_window, and when fit_to_window is false the zoom
\* adjustment's value equals state.zoom, which stays within [0.25, 3.0].
WidgetsMatchState ==
    /\ ui.fit_active = state.fit_to_window
    /\ ~state.fit_to_window => ui.zoom_value = state.zoom
    /\ QLe(ZoomLower, state.zoom) /\ QLe(state.zoom, ZoomUpper)

=============================================================================
